---- MODULE Spec2Model ----
(***************************************************************************)
(* A model of the fix-rs engine: the wire tokeniser and message parser     *)
(* (src/src/message.rs), the data dictionary loader                        *)
(* (src/src/data_dictionary.rs) and the session send path                  *)
(* (src/src/session/session_and_state.rs).                                 *)
(*                                                                         *)
(* Strings that the code inspects byte by byte (raw messages, tags, field  *)
(* values, message types) are sequences of byte values.  Names that the    *)
(* code only compares for equality (XML names) are TLA+ strings.           *)
(***************************************************************************)
EXTENDS Integers, Sequences, FiniteSets, TLC

VARIABLES
    doc,        \* the dictionary XML document handed to DataDictionary::from_str
    dict,       \* the loaded DataDictionary (NotLoaded before the load)
    raw,        \* the raw inbound message string (bytes)
    parsed,     \* the Result of Message::from_str on raw (NotParsed before)
    wire,       \* the strings handed to the writer channel (the broadcast
                \* channel of one IoAcceptor), in send order
    outbox,     \* the Message the application is about to send (NoMessage if none)
    session_map, \* the SessionIds that key the SessionMap built by create_sessions
    route,      \* what the receiver task made of raw: the reverse SessionId and
                \* whether get_session found it (NotRouted before)
    inbound,    \* per accepted connection, the framed messages its peer has
                \* written and the socket-read task has not read yet
    socket_to_engine, \* the mpsc channel from the socket-read tasks to the
                \* receiver task
    receiver,   \* the receiver thread: "Running" or "Panicked"
    delivered,  \* the calls of Application::from_app, in call order
    writers,    \* per accepted connection, its socket-write task: the
                \* position of its broadcast receiver, the strings written,
                \* whether the task still runs
    schedule,   \* a SessionSchedule
    now,        \* the current date and time in the schedule's time zone
    in_session, \* the value is_session_time() returned ("None" before)
    config,     \* the text of the settings file, as sections of lines
    properties, \* what Properties::from_str made of it
    fetched,    \* the last get_or_default call and its result
    peer,       \* one accepted connection: the bytes its peer has written and
                \* the BufReader has not handed out yet, the writes made, and
                \* whether the connection is open, closed by the peer or broken
    buf,        \* the Vec<u8> of the socket-read task of that connection
    reader      \* the socket-read task: where it stands and the bytes_read
                \* of its last read_until

engine_vars == <<inbound, socket_to_engine, receiver, delivered>>
writer_vars == <<writers>>
schedule_vars == <<schedule, now, in_session>>
settings_vars == <<config, properties, fetched>>
reader_vars == <<peer, buf, reader>>

vars == <<doc, dict, raw, parsed, wire, outbox, session_map, route,
          engine_vars, writer_vars, schedule_vars, settings_vars, reader_vars>>

\* no connection accepted, nothing received
EngineIdle ==
    /\ inbound = <<>>
    /\ socket_to_engine = <<>>
    /\ receiver = "Running"
    /\ delivered = <<>>

\* no connection accepted
WriterIdle == writers = <<>>

\* no schedule evaluated
ScheduleIdle ==
    /\ schedule = <<>>
    /\ now = <<>>
    /\ in_session = "None"

\* no settings file read
SettingsIdle ==
    /\ config = <<>>
    /\ properties = <<>>
    /\ fetched = <<>>

\* no socket-read task started
ReaderIdle ==
    /\ peer = <<>>
    /\ buf = <<>>
    /\ reader = <<>>

(***************************************************************************)
(* Bytes and strings                                                       *)
(***************************************************************************)
SOH == 1
PLUS == 43
EQUALS == 61
DIGIT0 == 48
DIGIT9 == 57
UPPER_A == 65
UPPER_Z == 90
CASE_BIT == 32
U32_MAX_DIV_10 == 429496729
U32_MAX_LAST_DIGIT == 5

IsDigit(b) == b >= DIGIT0 /\ b <= DIGIT9

RECURSIVE Concat(_)
Concat(ss) == IF ss = <<>> THEN <<>> ELSE Head(ss) \o Concat(Tail(ss))

RECURSIVE SumBytes(_)
SumBytes(s) == IF s = <<>> THEN 0 ELSE Head(s) + SumBytes(Tail(s))

\* index of the first occurrence of byte b in s, 0 when absent (str::find)
RECURSIVE FindByte(_, _, _)
FindByte(s, b, i) ==
    IF i > Len(s) THEN 0
    ELSE IF s[i] = b THEN i
    ELSE FindByte(s, b, i + 1)

\* u8::to_ascii_lowercase applied to every byte (str::to_ascii_lowercase)
to_ascii_lowercase(s) ==
    [i \in 1..Len(s) |->
        IF s[i] >= UPPER_A /\ s[i] <= UPPER_Z THEN s[i] + CASE_BIT ELSE s[i]]

\* str::parse::<u32>: an optional '+', then one or more ASCII digits, folded
\* with checked multiplication and addition.  ok = FALSE is the Err case.
RECURSIVE ParseDigits(_, _)
ParseDigits(s, acc) ==
    IF s = <<>> THEN [ok |-> TRUE, val |-> acc]
    ELSE IF ~IsDigit(Head(s)) THEN [ok |-> FALSE, val |-> 0]
    ELSE IF acc > U32_MAX_DIV_10
            \/ (acc = U32_MAX_DIV_10 /\ Head(s) - DIGIT0 > U32_MAX_LAST_DIGIT)
         THEN [ok |-> FALSE, val |-> 0]
    ELSE ParseDigits(Tail(s), acc * 10 + (Head(s) - DIGIT0))

ParseU32(s) ==
    IF s = <<>> THEN [ok |-> FALSE, val |-> 0]
    ELSE IF Head(s) = PLUS
         THEN IF Tail(s) = <<>> THEN [ok |-> FALSE, val |-> 0]
              ELSE ParseDigits(Tail(s), 0)
    ELSE ParseDigits(s, 0)

\* u32::to_string / usize::to_string: decimal digits without padding
RECURSIVE ToDecimal(_)
ToDecimal(n) ==
    IF n < 10 THEN <<DIGIT0 + n>>
    ELSE Append(ToDecimal(n \div 10), DIGIT0 + (n % 10))

\* format!("{:0>3}", n): left-padded with '0' to a width of three
PadThree(n) ==
    LET d == ToDecimal(n)
    IN  IF Len(d) >= 3 THEN d
        ELSE [i \in 1..(3 - Len(d)) |-> DIGIT0] \o d

(***************************************************************************)
(* StringField, FieldMap, Group, Message  (src/src/message.rs)             *)
(***************************************************************************)
StringField_new(tag, value) == [tag |-> tag, value |-> value]

\* impl Display for StringField: "{tag}={value}{SOH}"
StringField_to_string(f) == ToDecimal(f.tag) \o <<EQUALS>> \o f.value \o <<SOH>>

\* HashMap lookups: a map is a function, a missing key is a key outside DOMAIN
Has(m, k) == k \in DOMAIN m

FieldMap_new == [fields |-> <<>>, group |-> <<>>, field_order |-> <<>>]

with_field_order(order) == [FieldMap_new EXCEPT !.field_order = order]

set_field(fm, field) ==
    [fm EXCEPT !.fields = (field.tag :> field.value) @@ fm.fields]

get_field(fm, tag) ==
    IF Has(fm.fields, tag) THEN [ok |-> TRUE, val |-> fm.fields[tag]]
    ELSE [ok |-> FALSE, val |-> <<>>]

Group_new(delimiter, tag, value) ==
    [delim |-> delimiter, tag |-> tag, value |-> value, fields |-> <<>>]

Group_size(g) == Len(g.fields)

\* FieldMap::set_group: the count field is stored with the number re-rendered,
\* an existing Group is kept (or_insert_with), and `value` empty instances are
\* appended to it in either case.
set_group(fm, tag, value, rep_grp_delimiter) ==
    LET fm1 == set_field(fm, StringField_new(tag, ToDecimal(value)))
        g0 == IF Has(fm1.group, tag) THEN fm1.group[tag]
              ELSE Group_new(rep_grp_delimiter, tag, value)
        g1 == [g0 EXCEPT !.fields = g0.fields \o [i \in 1..value |-> FieldMap_new]]
    IN  [fm1 EXCEPT !.group = (tag :> g1) @@ fm1.group]

set_field_order(fm, f_order) == [fm EXCEPT !.field_order = f_order]

BEGIN_STRING_TAG == 8
BODY_LENGTH_TAG == 9
MSG_TYPE_TAG == 35
CHECKSUM_TAG == 10

Message_new ==
    [header |-> with_field_order(<<BEGIN_STRING_TAG, BODY_LENGTH_TAG, MSG_TYPE_TAG>>),
     body |-> FieldMap_new,
     trailer |-> FieldMap_new]

NoMessage == [header |-> FieldMap_new, body |-> FieldMap_new, trailer |-> FieldMap_new]

get_msg_type(msg) == get_field(msg.header, MSG_TYPE_TAG)

(***************************************************************************)
(* Rendering.  FieldMapIter::fieldmap_to_vec starts from                   *)
(* HashMap::values(), whose order is unspecified, and stable-sorts by the  *)
(* position in field_order (usize::MAX for a tag that is not in it) only   *)
(* when field_order is not empty.  Every order the build can produce is a  *)
(* member of FieldOrders.                                                  *)
(***************************************************************************)
Perms(S) ==
    {p \in [1..Cardinality(S) -> S] : \A i, j \in 1..Cardinality(S) : p[i] = p[j] => i = j}

RECURSIVE Restrict(_, _)
Restrict(seq, S) ==
    IF seq = <<>> THEN <<>>
    ELSE IF Head(seq) \in S THEN <<Head(seq)>> \o Restrict(Tail(seq), S \ {Head(seq)})
    ELSE Restrict(Tail(seq), S)

FieldOrders(fm) ==
    LET tags == DOMAIN fm.fields
        inOrder == {t \in tags : \E i \in 1..Len(fm.field_order) : fm.field_order[i] = t}
    IN  {Restrict(fm.field_order, inOrder) \o p : p \in Perms(tags \ inOrder)}

\* all concatenations of one choice per position
RECURSIVE Products(_)
Products(sets) ==
    IF sets = <<>> THEN {<<>>}
    ELSE {h \o t : h \in Head(sets), t \in Products(Tail(sets))}

\* the byte strings fieldmap_to_vec followed by Display can produce
RECURSIVE fieldmap_to_vec(_)
fieldmap_to_vec(fm) ==
    UNION {
        Products([i \in 1..Len(order) |->
            LET tag == order[i]
                own == StringField_to_string(StringField_new(tag, fm.fields[tag]))
            IN  IF Has(fm.group, tag)
                THEN {own \o rest :
                        rest \in Products([k \in 1..Len(fm.group[tag].fields) |->
                                    fieldmap_to_vec(fm.group[tag].fields[k])])}
                ELSE {own}])
        : order \in FieldOrders(fm)}

\* impl Display for Message: header, body, trailer
Message_to_string(msg) ==
    {h \o b \o t : h \in fieldmap_to_vec(msg.header),
                   b \in fieldmap_to_vec(msg.body),
                   t \in fieldmap_to_vec(msg.trailer)}

\* the fields FieldMap::iter yields, as a bag-like sequence in one fixed order
\* (used by the sums below, which do not depend on the order)
RECURSIVE iter_fields(_)
iter_fields(fm) ==
    LET order == CHOOSE o \in FieldOrders(fm) : TRUE
    IN  Concat([i \in 1..Len(order) |->
            LET tag == order[i]
            IN  <<StringField_new(tag, fm.fields[tag])>> \o
                (IF Has(fm.group, tag)
                 THEN Concat([k \in 1..Len(fm.group[tag].fields) |->
                                iter_fields(fm.group[tag].fields[k])])
                 ELSE <<>>)])

Message_iter(msg) == iter_fields(msg.header) \o iter_fields(msg.body) \o iter_fields(msg.trailer)

RECURSIVE ByteSumExcept(_, _)
ByteSumExcept(fs, skip) ==
    IF fs = <<>> THEN 0
    ELSE (IF Head(fs).tag \in skip THEN 0 ELSE SumBytes(StringField_to_string(Head(fs))))
         + ByteSumExcept(Tail(fs), skip)

RECURSIVE ByteLenExcept(_, _)
ByteLenExcept(fs, skip) ==
    IF fs = <<>> THEN 0
    ELSE (IF Head(fs).tag \in skip THEN 0 ELSE Len(StringField_to_string(Head(fs))))
         + ByteLenExcept(Tail(fs), skip)

calc_checksum(msg) == ByteSumExcept(Message_iter(msg), {CHECKSUM_TAG}) % 256

set_checksum(msg) ==
    [msg EXCEPT !.trailer =
        set_field(msg.trailer, StringField_new(CHECKSUM_TAG, PadThree(calc_checksum(msg))))]

calc_body_len(msg) ==
    ByteLenExcept(Message_iter(msg), {BEGIN_STRING_TAG, BODY_LENGTH_TAG, CHECKSUM_TAG})

set_body_len(msg) ==
    [msg EXCEPT !.header =
        set_field(msg.header, StringField_new(BODY_LENGTH_TAG, ToDecimal(calc_body_len(msg))))]

(***************************************************************************)
(* DataDictionary  (src/src/data_dictionary.rs)                            *)
(*                                                                         *)
(* An XML document is a record                                             *)
(*   [type, major, minor : bytes,                                          *)
(*    fields     : Seq([number : bytes, name, type : STRING,               *)
(*                      values : Seq(STRING)]),                            *)
(*    components : Seq([name : STRING, children : Seq(child)]),            *)
(*    header, trailer : Seq(child),                                        *)
(*    messages   : Seq([name : STRING, msgtype : bytes, msgcat : STRING,   *)
(*                      children : Seq(child)])]                           *)
(* and a child is [tag, name, required : STRING, children : Seq(child)].   *)
(* An attribute that is missing or empty is the empty string.              *)
(***************************************************************************)
HEADER_ID == <<72, 101, 97, 100, 101, 114>>            \* "Header"
TRAILER_ID == <<84, 114, 97, 105, 108, 101, 114>>      \* "Trailer"
DOT == 46

DataDictionary_default ==
    [begin_string |-> <<>>, fields_by_tag |-> <<>>, fields_by_name |-> <<>>,
     field_values |-> <<>>, field_type |-> <<>>, groups |-> <<>>,
     fields_order |-> <<>>, types |-> <<>>, category |-> <<>>,
     msg_fields |-> <<>>, msg_required_fields |-> <<>>]

is_msg_group(dd, msg_type, tag) ==
    Has(dd.groups, msg_type) /\ Has(dd.groups[msg_type], tag)

\* Option<&GroupInfo>: callers test is_msg_group first or handle None
get_msg_group(dd, msg_type, tag) == dd.groups[msg_type][tag]

get_ordered_fields(dd) == dd.fields_order

is_msg_field(dd, msg_type, tag) ==
    Has(dd.msg_fields, msg_type) /\ tag \in dd.msg_fields[msg_type]

is_msg_req_field(dd, msg_type, tag) ==
    Has(dd.msg_required_fields, msg_type) /\ tag \in dd.msg_required_fields[msg_type]

is_trailer_field(dd, tag) == is_msg_field(dd, TRAILER_ID, tag)

is_header_field(dd, tag) == is_msg_field(dd, HEADER_ID, tag)

\* position of x in seq, 0 when absent (Iterator::position, IndexSet lookup)
RECURSIVE PositionFrom(_, _, _)
PositionFrom(seq, x, i) ==
    IF i > Len(seq) THEN 0
    ELSE IF seq[i] = x THEN i
    ELSE PositionFrom(seq, x, i + 1)

Position(seq, x) == PositionFrom(seq, x, 1)

\* Results of the loader: err = "" is Ok, anything else the XmlError variant
\* (or "panic"); num carries the u32 some functions return.
Ok(dd, num) == [err |-> "", dd |-> dd, num |-> num]
Fail(e, dd) == [err |-> e, dd |-> dd, num |-> 0]

\* the `?` operator: an Err ends the function, an Ok value goes on
Try(r, Then(_)) == IF r.err # "" THEN r ELSE Then(r)
TryVal(v, dd, Then(_)) == IF v.err # "" THEN Fail(v.err, dd) ELSE Then(v.val)

get_required_attr(node) ==
    IF node.required = "" THEN [err |-> "AttributeNotFound", val |-> FALSE]
    ELSE [err |-> "", val |-> node.required \in {"Y", "y"}]

set_field_name_number_type_unchecked(dd, name, number, ty) ==
    Ok([dd EXCEPT !.fields_by_name = (name :> number) @@ @,
                  !.fields_by_tag = (number :> name) @@ @,
                  !.field_type = IF Has(@, number) THEN @ ELSE (number :> ty) @@ @],
       number)

set_field_name_number_type(dd, name, number, ty) ==
    IF Has(dd.fields_by_name, name) \/ Has(dd.fields_by_tag, number)
    THEN Fail("DuplicateField", dd)
    ELSE Ok([dd EXCEPT !.fields_by_name = (name :> number) @@ @,
                       !.fields_by_tag = (number :> name) @@ @,
                       !.field_type = IF Has(@, number) THEN @ ELSE (number :> ty) @@ @],
            number)

set_field_values(dd, fnumber, values) ==
    [dd EXCEPT !.field_values = IF Has(@, fnumber) THEN @ ELSE (fnumber :> values) @@ @]

add_fields_front(dd, field) ==
    [dd EXCEPT !.fields_order = IF Position(@, field) = 0 THEN <<field>> \o @ ELSE @]

add_fields(dd, field) ==
    [dd EXCEPT !.fields_order = IF Position(@, field) = 0 THEN Append(@, field) ELSE @]

set_msg_name_type_cat(dd, msg_name, msg_type, cat) ==
    IF Has(dd.category, msg_type) \/ Has(dd.types, msg_name)
    THEN Fail("DuplicateMessage", dd)
    ELSE Ok([dd EXCEPT !.types = (msg_name :> msg_type) @@ @,
                       !.category = (msg_type :> cat) @@ @], 0)

set_field_for_all_required(dd, msg_type, fnum, required) ==
    LET present == IF Has(dd.msg_fields, msg_type) THEN dd.msg_fields[msg_type] ELSE {}
        req == IF Has(dd.msg_required_fields, msg_type)
               THEN dd.msg_required_fields[msg_type] ELSE {}
    IN  IF fnum \in present
        THEN Fail("DuplicateField", [dd EXCEPT !.msg_fields = (msg_type :> present) @@ @])
        ELSE Ok([dd EXCEPT
                    !.msg_fields = (msg_type :> (present \cup {fnum})) @@ @,
                    !.msg_required_fields = (msg_type :> (req \cup {fnum})) @@ @],
                fnum)

set_field_for(dd, msg_type, fnum, required) ==
    LET present == IF Has(dd.msg_fields, msg_type) THEN dd.msg_fields[msg_type] ELSE {}
        req == IF Has(dd.msg_required_fields, msg_type)
               THEN dd.msg_required_fields[msg_type] ELSE {}
    IN  IF fnum \in present
        THEN Fail("DuplicateField", [dd EXCEPT !.msg_fields = (msg_type :> present) @@ @])
        ELSE Ok([dd EXCEPT
                    !.msg_fields = (msg_type :> (present \cup {fnum})) @@ @,
                    !.msg_required_fields =
                        IF required THEN (msg_type :> (req \cup {fnum})) @@ @ ELSE @],
                fnum)

set_group_info(dd, msg_type, grp_num, info) ==
    LET old == IF Has(dd.groups, msg_type) THEN dd.groups[msg_type] ELSE <<>>
    IN  [dd EXCEPT !.groups = (msg_type :> ((grp_num :> info) @@ old)) @@ @]

\* get_field_values: the enum values of one field element, Err on a repeat
RECURSIVE get_field_values_lenient(_, _)
get_field_values_lenient(values, seen) ==
    IF values = <<>> THEN [err |-> "", val |-> seen]
    ELSE IF Head(values) = "" THEN [err |-> "AttributeNotFound", val |-> seen]
    ELSE get_field_values_lenient(Tail(values), seen \cup {Head(values)})

RECURSIVE get_field_values(_, _)
get_field_values(values, seen) ==
    IF values = <<>> THEN [err |-> "", val |-> seen]
    ELSE IF Head(values) = "" THEN [err |-> "AttributeNotFound", val |-> seen]
    ELSE IF Head(values) \in seen THEN [err |-> "DuplicateField", val |-> seen]
    ELSE get_field_values(Tail(values), seen \cup {Head(values)})

get_number_attr(node) ==
    IF node.number = <<>> THEN [err |-> "AttributeNotFound", val |-> 0]
    ELSE LET n == ParseU32(node.number)
         IN  IF n.ok THEN [err |-> "", val |-> n.val]
             ELSE [err |-> "FieldNotParsed", val |-> 0]

RECURSIVE add_fields_and_values(_, _)
add_fields_and_values(dd, fields) ==
    IF fields = <<>> THEN Ok(dd, 0)
    ELSE IF Head(fields).name = "" THEN Fail("AttributeNotFound", dd)
    ELSE TryVal(get_number_attr(Head(fields)), dd, LAMBDA number :
            IF Head(fields).type = "" THEN Fail("AttributeNotFound", dd)
            ELSE Try(set_field_name_number_type(dd, Head(fields).name, number,
                                                Head(fields).type), LAMBDA r :
                    TryVal(get_field_values(Head(fields).values, {}), r.dd, LAMBDA values :
                        add_fields_and_values(
                            IF values # {} THEN set_field_values(r.dd, number, values)
                            ELSE r.dd,
                            Tail(fields)))))

RECURSIVE lookup_field_num_with_name(_, _)
lookup_field_num_with_name(field_name, fields) ==
    IF fields = <<>> THEN [err |-> "XmlNodeNotFound", val |-> 0]
    ELSE IF Head(fields).number # <<>> /\ Head(fields).name # ""
            /\ Head(fields).name = field_name
         THEN get_number_attr(Head(fields))
    ELSE lookup_field_num_with_name(field_name, Tail(fields))

add_fields_to(dd, msg_type, field_name, is_required, xml) ==
    TryVal(lookup_field_num_with_name(field_name, xml.fields), dd, LAMBDA n :
        Try(set_field_for(dd, msg_type, n, is_required), LAMBDA r :
            Ok(add_fields(r.dd, n), n)))

\* get_component_nodes_by_name: a later component of the same name replaces
\* an earlier one
RECURSIVE get_component_nodes_by_name(_, _)
get_component_nodes_by_name(components, cmap) ==
    IF components = <<>> THEN [err |-> "", val |-> cmap]
    ELSE IF Head(components).name = "" THEN [err |-> "AttributeNotFound", val |-> cmap]
    ELSE get_component_nodes_by_name(Tail(components),
             (Head(components).name :> Head(components).children) @@ cmap)

(***************************************************************************)
(* Expansion of message, component and group elements.  Each loop below is *)
(* the `for child in ...children()` loop of the function it is named       *)
(* after; an Err (the `?` operator) or a panic ends the whole load.        *)
(***************************************************************************)
\* the `required` passed down for a component nested in a component: the
\* nested element's own attribute, whatever the enclosing component's is
\* let is_grp_req = group_required && is_required: the count tag of a group
\* inside a component or a group
group_tag_required_own(group_required, is_required) == group_required
group_tag_required(group_required, is_required) == group_required /\ is_required

\* add_xml_group hands a component child its own required attribute
group_component_required_enclosing(is_required, comp_required) ==
    is_required /\ comp_required
group_component_required(is_required, comp_required) == comp_required

\* if delimiter == 0 { delimiter = first_field }
keep_last_field(first_field, num) == num
keep_first_field(first_field, num) == IF first_field = 0 THEN num ELSE first_field

nested_component_required_enclosing(is_required, comp_required) == is_required /\ comp_required
nested_component_required(is_required, comp_required) == comp_required

\* the end of add_xml_group: the GroupInfo built from the children (inner) is
\* registered under the group's count tag
register_group(dd, inner, group_node, msg_type, xml) ==
    IF inner.err # "" THEN Fail(inner.err, dd)
    ELSE IF group_node.name = "" THEN Fail("AttributeNotFound", dd)
    ELSE TryVal(lookup_field_num_with_name(group_node.name, xml.fields), dd,
                LAMBDA group_tag :
                    Ok(set_group_info(dd, msg_type, group_tag,
                                      [delimiter |-> inner.num, group_dd |-> inner.dd]), 0))

\* the `for child in node.children()` loops of add_xml_group (owner =
\* "group") and add_xml_component (owner = "component"), which differ only
\* in the order in which a component child's attributes are read; num is the
\* first field met (the delimiter of a group)
RECURSIVE add_xml_children(_, _, _, _, _, _, _, _)
add_xml_children(dd, first_field, msg_type, children, is_required, components, xml, owner) ==
    IF children = <<>> THEN Ok(dd, first_field)
    ELSE
    LET child == Head(children)
        req == get_required_attr(child)
        no_name == child.name = ""
    IN  Try(CASE child.tag = "field" ->
                    IF no_name THEN Fail("AttributeNotFound", dd)
                    ELSE IF req.err # "" THEN Fail(req.err, dd)
                    ELSE add_fields_to(dd, msg_type, child.name, req.val /\ is_required, xml)
              [] child.tag = "component" ->
                    IF owner = "group" /\ no_name THEN Fail("AttributeNotFound", dd)
                    ELSE IF req.err # "" THEN Fail(req.err, dd)
                    ELSE IF no_name THEN Fail("AttributeNotFound", dd)
                    ELSE IF ~Has(components, child.name) THEN Fail("panic", dd)
                    ELSE add_xml_children(dd, 0, msg_type, components[child.name],
                            IF owner = "group"
                            THEN group_component_required(is_required, req.val)
                            ELSE nested_component_required(is_required, req.val),
                            components, xml, "component")
              [] child.tag = "group" ->
                    IF no_name THEN Fail("AttributeNotFound", dd)
                    ELSE IF req.err # "" THEN Fail(req.err, dd)
                    ELSE Try(add_fields_to(dd, msg_type, child.name,
                                           group_tag_required(req.val, is_required), xml),
                             LAMBDA f :
                            Try(register_group(f.dd,
                                    add_xml_children(DataDictionary_default, 0, msg_type,
                                                     child.children, req.val, components,
                                                     xml, "group"),
                                    child, msg_type, xml), LAMBDA g :
                                Ok(g.dd, f.num)))
              [] OTHER -> Fail("UnknownXmlTag", dd),
            LAMBDA r :
                add_xml_children(r.dd, keep_first_field(first_field, r.num),
                                 msg_type, Tail(children), is_required, components, xml,
                                 owner))

add_xml_group_required(dd, msg_type, group_node, is_required, components, xml) ==
    register_group(dd,
                   add_xml_children(DataDictionary_default, 0, msg_type, group_node.children,
                                    TRUE, components, xml, "group"),
                   group_node, msg_type, xml)

add_xml_group(dd, msg_type, group_node, is_required, components, xml) ==
    register_group(dd,
                   add_xml_children(DataDictionary_default, 0, msg_type, group_node.children,
                                    is_required, components, xml, "group"),
                   group_node, msg_type, xml)

\* comp_node is the sequence of the component element's children
add_xml_component(dd, msg_type, comp_node, is_required, components, xml) ==
    add_xml_children(dd, 0, msg_type, comp_node, is_required, components, xml, "component")

add_xml_message_child(dd, msg_type, child, components, xml) ==
    LET req == get_required_attr(child)
    IN  CASE child.tag = "field" ->
                IF child.name = "" THEN Fail("AttributeNotFound", dd)
                ELSE IF req.err # "" THEN Fail(req.err, dd)
                ELSE add_fields_to(dd, msg_type, child.name, req.val, xml)
          [] child.tag = "component" ->
                IF req.err # "" THEN Fail(req.err, dd)
                ELSE IF child.name = "" THEN Fail("AttributeNotFound", dd)
                ELSE IF ~Has(components, child.name) THEN Fail("panic", dd)
                ELSE add_xml_component(dd, msg_type, components[child.name], req.val,
                                       components, xml)
          [] child.tag = "group" ->
                IF child.name = "" THEN Fail("AttributeNotFound", dd)
                ELSE IF req.err # "" THEN Fail(req.err, dd)
                ELSE Try(add_fields_to(dd, msg_type, child.name, req.val, xml), LAMBDA f :
                        add_xml_group(f.dd, msg_type, child, req.val, components, xml))
          [] OTHER -> Fail("UnknownXmlTag", dd)

RECURSIVE add_xml_message_children(_, _, _, _, _)
add_xml_message_children(dd, msg_type, children, components, xml) ==
    IF children = <<>> THEN Ok(dd, 0)
    ELSE Try(add_xml_message_child(dd, msg_type, Head(children), components, xml),
             LAMBDA r :
                add_xml_message_children(r.dd, msg_type, Tail(children), components, xml))

add_xml_message(dd, msg_type, node, components, xml) ==
    add_xml_message_children(
        [dd EXCEPT !.msg_fields = (msg_type :> {}) @@ @,
                   !.msg_required_fields = (msg_type :> {}) @@ @],
        msg_type, node, components, xml)

RECURSIVE add_all_xml_messages(_, _, _, _)
add_all_xml_messages(dd, msgs, components, xml) ==
    IF msgs = <<>> THEN Ok(dd, 0)
    ELSE IF Head(msgs).name = "" \/ Head(msgs).msgcat = "" \/ Head(msgs).msgtype = <<>>
    THEN Fail("AttributeNotFound", dd)
    ELSE Try(set_msg_name_type_cat(dd, Head(msgs).name, Head(msgs).msgtype,
                                   Head(msgs).msgcat), LAMBDA c :
            Try(add_xml_message(c.dd, Head(msgs).msgtype, Head(msgs).children,
                                components, xml), LAMBDA r :
                add_all_xml_messages(r.dd, Tail(msgs), components, xml)))

get_begin_str_from_doc(xml) == xml.type \o <<DOT>> \o xml.major \o <<DOT>> \o xml.minor

\* impl FromStr for DataDictionary
DataDictionary_from_str(xml) ==
    IF xml.type = <<>> \/ xml.major = <<>> \/ xml.minor = <<>>
    THEN Fail("AttributeNotFound", DataDictionary_default)
    ELSE
    Try(add_fields_and_values(
            [DataDictionary_default EXCEPT !.begin_string = get_begin_str_from_doc(xml)],
            xml.fields), LAMBDA f :
        TryVal(get_component_nodes_by_name(xml.components, <<>>), f.dd, LAMBDA cm :
            Try(add_xml_message(f.dd, to_ascii_lowercase(HEADER_ID), xml.header, cm, xml),
                LAMBDA h :
                    Try(add_xml_message(h.dd, to_ascii_lowercase(TRAILER_ID), xml.trailer,
                                        cm, xml), LAMBDA t :
                        add_all_xml_messages(t.dd, xml.messages, cm, xml)))))

(***************************************************************************)
(* Message::from_str and the parser  (src/src/message.rs)                  *)
(*                                                                         *)
(* A parse result is [kind, reason, msg]: kind "Ok" carries the Message,   *)
(* kind "Err" the SessionRejectReason in reason, and kind "Panic" is an    *)
(* abort of the calling thread (an out-of-range index or an unwrap).       *)
(***************************************************************************)
Accept(msg) == [kind |-> "Ok", reason |-> "", msg |-> msg]
Reject(reason) == [kind |-> "Err", reason |-> reason, msg |-> NoMessage]
Abort == [kind |-> "Panic", reason |-> "", msg |-> NoMessage]
NotParsed == [kind |-> "None", reason |-> "", msg |-> NoMessage]

\* str::split_terminator(SOH): the pieces between separators, without the
\* empty piece that follows a final separator
RECURSIVE SplitOn(_, _, _)
SplitOn(s, cur, acc) ==
    IF s = <<>> THEN Append(acc, cur)
    ELSE IF Head(s) = SOH THEN SplitOn(Tail(s), <<>>, Append(acc, cur))
    ELSE SplitOn(Tail(s), Append(cur, Head(s)), acc)

split_terminator(s) ==
    LET pieces == SplitOn(s, <<>>, <<>>)
    IN  IF pieces[Len(pieces)] = <<>> THEN SubSeq(pieces, 1, Len(pieces) - 1) ELSE pieces

\* splitting at the last '=' instead (str::rsplit_once)
split_once_last(field) ==
    LET eqs == {i \in 1..Len(field) : field[i] = EQUALS}
        i == IF eqs = {} THEN 0 ELSE CHOOSE j \in eqs : \A k \in eqs : k <= j
    IN  IF i = 0 THEN [found |-> FALSE, t |-> <<>>, v |-> <<>>]
        ELSE [found |-> TRUE, t |-> SubSeq(field, 1, i - 1),
              v |-> SubSeq(field, i + 1, Len(field))]

\* str::split_once('='): found = FALSE is None
split_once(field) ==
    LET i == FindByte(field, EQUALS, 1)
    IN  IF i = 0 THEN [found |-> FALSE, t |-> <<>>, v |-> <<>>]
        ELSE [found |-> TRUE, t |-> SubSeq(field, 1, i - 1),
              v |-> SubSeq(field, i + 1, Len(field))]

\* the loop of Message::from_str that fills the VecDeque; err = "" when every
\* field was pushed
RECURSIVE tokenize(_, _)
tokenize(pieces, vdeq) ==
    IF pieces = <<>> THEN [err |-> "", v |-> vdeq]
    ELSE LET sp == split_once(Head(pieces))
             tag == ParseU32(sp.t)
         IN  IF ~sp.found THEN [err |-> "InvalidTag", v |-> vdeq]
             ELSE IF ~tag.ok THEN [err |-> "InvalidTag", v |-> vdeq]
             ELSE IF sp.v = <<>> THEN [err |-> "TagSpecifiedWithoutValue", v |-> vdeq]
             ELSE tokenize(Tail(pieces), Append(vdeq, StringField_new(tag.val, sp.v)))

\* Results of the parse phases: err = "" is Ok(()), "panic" an abort
Step(v, fmap) == [err |-> "", v |-> v, fmap |-> fmap]
Stop(e) == [err |-> e, v |-> <<>>, fmap |-> FieldMap_new]

\* a push_front that loses the field
push_front_lost(v, fld) == v

\* VecDeque::push_front
push_front(v, fld) == <<fld>> \o v

RECURSIVE parse_group(_, _, _, _, _)
RECURSIVE parse_group_loop(_, _, _, _, _, _, _, _)

\* the `while let Some(next_field) = v.pop_front()` loop of parse_group;
\* returns [err, v, group, actual_count]
parse_group_loop(v, group, actual_count, previous_offset, msg_type, rg, declared_count, dd) ==
    LET rg_dd == rg.group_dd
        delimiter == rg.delimiter
        field_order == get_ordered_fields(rg_dd)
        finish(e, q, g, n) == [err |-> e, v |-> q, group |-> g, actual_count |-> n]
    IN
    IF v = <<>> THEN finish("", v, group, actual_count)
    ELSE
    LET next_field == Head(v)
        rest == Tail(v)
    IN  IF next_field.tag = delimiter THEN
            LET count == actual_count + 1
            IN  IF count + 1 >= declared_count
                THEN finish("IncorrectNumInGroupCountForRepeatingGroup", rest, group, count)
                ELSE IF count + 1 > Len(group.fields)
                THEN finish("panic", rest, group, count)
                ELSE
                LET instance == set_field_order(group.fields[count + 1], field_order)
                IN  IF is_msg_group(rg_dd, msg_type, next_field.tag)
                    THEN LET r == parse_group(rest, msg_type, next_field, instance, dd)
                         IN  IF r.err # "" THEN finish(r.err, r.v, group, count)
                             ELSE parse_group_loop(r.v,
                                      [group EXCEPT !.fields[count + 1] = r.fmap],
                                      count, -1, msg_type, rg, declared_count, dd)
                    ELSE parse_group_loop(rest,
                             [group EXCEPT !.fields[count + 1] = set_field(instance, next_field)],
                             count, -1, msg_type, rg, declared_count, dd)
        ELSE IF is_msg_group(rg_dd, msg_type, next_field.tag) THEN
            IF actual_count < 0
            THEN finish("RequiredTagMissing", rest, group, actual_count)
            ELSE IF actual_count + 1 > Len(group.fields)
            THEN finish("panic", rest, group, actual_count)
            ELSE LET r == parse_group(rest, msg_type, next_field,
                                      group.fields[actual_count + 1], dd)
                 IN  IF r.err # "" THEN finish(r.err, r.v, group, actual_count)
                     ELSE parse_group_loop(r.v,
                              [group EXCEPT !.fields[actual_count + 1] = r.fmap],
                              actual_count, previous_offset, msg_type, rg, declared_count, dd)
        ELSE IF is_msg_field(rg_dd, msg_type, next_field.tag) THEN
            IF actual_count < 0
            THEN finish("RequiredTagMissing", rest, group, actual_count)
            ELSE
            LET offset == Position(field_order, next_field.tag) - 1
            IN  IF offset < 0 THEN finish("panic", rest, group, actual_count)
                ELSE IF offset < previous_offset
                THEN finish("RepeatingGroupsOutOfOrder", rest, group, actual_count)
                ELSE IF actual_count + 1 > Len(group.fields)
                THEN finish("panic", rest, group, actual_count)
                ELSE parse_group_loop(rest,
                         [group EXCEPT !.fields[actual_count + 1] = set_field(@, next_field)],
                         actual_count, offset, msg_type, rg, declared_count, dd)
        ELSE \* not a field of the group: v.push_front(next_field); break
            finish("", push_front(rest, next_field), group, actual_count)

parse_group(v, msg_type, fld, fmap, dd) ==
    IF ~is_msg_group(dd, msg_type, fld.tag) THEN Stop("TagNotDefinedForMsgType")
    ELSE
    LET rg == get_msg_group(dd, msg_type, fld.tag)
        declared == ParseU32(fld.value)
    IN  IF ~declared.ok THEN Stop("IncorrectDataFormatForValue")
        ELSE
        LET fmap1 == set_group(fmap, fld.tag, declared.val, rg.delimiter)
            r == parse_group_loop(v, fmap1.group[fld.tag], -1, -1, msg_type, rg,
                                  declared.val, dd)
        IN  IF r.err # "" THEN Stop(r.err)
            ELSE IF r.actual_count + 1 # declared.val
            THEN Stop("IncorrectNumInGroupCountForRepeatingGroup")
            ELSE Step(r.v, [fmap1 EXCEPT !.group[fld.tag] = r.group])

\* the `while let Some(fld) = v.pop_front()` loop of parse_header
RECURSIVE parse_header_loop(_, _, _)
parse_header_loop(v, header, dd) ==
    IF v = <<>> THEN Step(v, header)
    ELSE LET fld == Head(v)
         IN  IF ~is_header_field(dd, fld.tag) THEN Step(v, header)
             ELSE IF is_msg_group(dd, HEADER_ID, fld.tag)
             THEN LET r == parse_group(Tail(v), HEADER_ID, fld, header, dd)
                  IN  IF r.err # "" THEN r ELSE parse_header_loop(r.v, r.fmap, dd)
             ELSE parse_header_loop(Tail(v), set_field(header, fld), dd)

\* v[0], v[1], v[2] are read left to right behind `||`: an index past the
\* end of the VecDeque panics unless an earlier comparison already decided
parse_header(v, header, dd) ==
    IF Len(v) < 1 THEN Stop("panic")
    ELSE IF v[1].tag # BEGIN_STRING_TAG THEN Stop("TagSpecifiedOutOfOrder")
    ELSE IF Len(v) < 2 THEN Stop("panic")
    ELSE IF v[2].tag # BODY_LENGTH_TAG THEN Stop("TagSpecifiedOutOfOrder")
    ELSE IF Len(v) < 3 THEN Stop("panic")
    ELSE IF v[3].tag # MSG_TYPE_TAG THEN Stop("TagSpecifiedOutOfOrder")
    ELSE parse_header_loop(v, header, dd)

\* the loop of parse_body; fmap is the message body
RECURSIVE parse_body_loop(_, _, _, _)
parse_body_loop(v, body, msg_type, dd) ==
    IF v = <<>> THEN Step(v, body)
    ELSE LET fld == Head(v)
         IN  IF is_header_field(dd, fld.tag) THEN Stop("TagSpecifiedOutOfOrder")
             ELSE IF is_trailer_field(dd, fld.tag) THEN Step(v, body)
             ELSE IF is_msg_group(dd, msg_type, fld.tag)
             THEN LET r == parse_group(Tail(v), msg_type, fld, body, dd)
                  IN  IF r.err # "" THEN r ELSE parse_body_loop(r.v, r.fmap, msg_type, dd)
             ELSE parse_body_loop(Tail(v), set_field(body, fld), msg_type, dd)

parse_body(v, msg, dd) ==
    LET msg_type == get_msg_type(msg)
    IN  IF ~msg_type.ok THEN Stop("RequiredTagMissing")
        ELSE parse_body_loop(v, msg.body, msg_type.val, dd)

RECURSIVE parse_trailer(_, _, _)
parse_trailer(v, trailer, dd) ==
    IF v = <<>> THEN Step(v, trailer)
    ELSE IF ~is_trailer_field(dd, Head(v).tag) THEN Stop("TagSpecifiedOutOfOrder")
    ELSE parse_trailer(Tail(v), set_field(trailer, Head(v)), dd)

Outcome(e) == IF e = "panic" THEN Abort ELSE Reject(e)

from_vec(v, dd) ==
    LET message == Message_new
        h == parse_header(v, message.header, dd)
    IN  IF h.err # "" THEN Outcome(h.err)
        ELSE LET m1 == [message EXCEPT !.header = h.fmap]
                 b == parse_body(h.v, m1, dd)
             IN  IF b.err # "" THEN Outcome(b.err)
                 ELSE LET m2 == [m1 EXCEPT !.body = b.fmap]
                          t == parse_trailer(b.v, m2.trailer, dd)
                      IN  IF t.err # "" THEN Outcome(t.err)
                          ELSE Accept([m2 EXCEPT !.trailer = t.fmap])

Message_from_str(s, dd) ==
    LET t == tokenize(split_terminator(s), <<>>)
    IN  IF t.err # "" THEN Reject(t.err) ELSE from_vec(t.v, dd)

(***************************************************************************)
(* Session::send_to_target / sync_send_to_target                           *)
(* (src/src/session/session_and_state.rs): the Message is rendered with    *)
(* to_string and handed to the responder channel as it is.                 *)
(***************************************************************************)
send_to_target_strings(msg) == Message_to_string(msg)

\* what Session::sync_send_to_target hands to the writer channel (synchronous_send = true)
sync_send_to_target_strings(msg) == Message_to_string(msg)

(***************************************************************************)
(* SessionId and the reverse lookup of the receiver task                   *)
(*                                                                         *)
(* An Option<String> is [some : BOOLEAN, val : bytes].                     *)
(***************************************************************************)
None == [some |-> FALSE, val |-> <<>>]
Some(v) == [some |-> TRUE, val |-> v]

COLON == 58
SLASH == 47
ARROW == <<45, 62>>                                     \* "->"

TAG_8 == <<DIGIT0 + 8>>
TAG_49 == <<DIGIT0 + 4, DIGIT0 + 9>>
TAG_50 == <<DIGIT0 + 5, DIGIT0>>
TAG_142 == <<DIGIT0 + 1, DIGIT0 + 4, DIGIT0 + 2>>
TAG_56 == <<DIGIT0 + 5, DIGIT0 + 6>>
TAG_57 == <<DIGIT0 + 5, DIGIT0 + 7>>
TAG_143 == <<DIGIT0 + 1, DIGIT0 + 4, DIGIT0 + 3>>

SessionIdBuilder_default ==
    [begin_string |-> None, sender_compid |-> None, sender_subid |-> None,
     sender_locationid |-> None, target_compid |-> None, target_subid |-> None,
     target_locationid |-> None, session_qualifier |-> None]

\* SessionId::set_session_id: BEGIN:SENDER[/SUB][/LOC]->TARGET[/SUB][/LOC]
set_session_id(sid) ==
    sid.begin_string \o <<COLON>> \o sid.sender_compid
    \o (IF sid.sender_subid.some THEN <<SLASH>> \o sid.sender_subid.val ELSE <<>>)
    \o (IF sid.sender_locationid.some THEN <<SLASH>> \o sid.sender_locationid.val ELSE <<>>)
    \o ARROW \o sid.target_compid
    \o (IF sid.target_subid.some THEN <<SLASH>> \o sid.target_subid.val ELSE <<>>)
    \o (IF sid.target_locationid.some THEN <<SLASH>> \o sid.target_locationid.val ELSE <<>>)

\* an optional id that is unset or empty becomes None
non_empty(o) == IF o.some /\ o.val # <<>> THEN Some(o.val) ELSE None

\* SessionIdBuilder::build; begin_string and the comp ids are set by every
\* caller
SessionIdBuilder_build(b) ==
    LET session_id ==
            [begin_string |-> b.begin_string.val,
             sender_compid |-> b.sender_compid.val,
             sender_subid |-> non_empty(b.sender_subid),
             sender_locationid |-> non_empty(b.sender_locationid),
             target_compid |-> b.target_compid.val,
             target_subid |-> non_empty(b.target_subid),
             target_locationid |-> non_empty(b.target_locationid),
             session_qualifier |-> b.session_qualifier]
    IN  session_id @@ [id |-> set_session_id(session_id)]

\* prop_map.get(key).or_else(|| defaults.get(key))
setting(prop_map, defaults, key) ==
    IF Has(prop_map, key) THEN Some(prop_map[key])
    ELSE IF Has(defaults, key) THEN Some(defaults[key])
    ELSE None

\* SessionId::from_map
SessionId_from_map(prop_map, defaults) ==
    SessionIdBuilder_build(
        [SessionIdBuilder_default EXCEPT
            !.begin_string = setting(prop_map, defaults, "begin_string"),
            !.sender_compid = setting(prop_map, defaults, "sender_comp_id"),
            !.target_compid = setting(prop_map, defaults, "target_comp_id"),
            !.sender_subid = setting(prop_map, defaults, "sender_sub_id"),
            !.sender_locationid = setting(prop_map, defaults, "sender_location_id"),
            !.target_subid = setting(prop_map, defaults, "target_sub_id"),
            !.target_locationid = setting(prop_map, defaults, "target_location_id")])

\* str::find(pat): index of the first occurrence of pat in s from i on, 0
\* when absent
RECURSIVE FindFrom(_, _, _)
FindFrom(s, pat, i) ==
    IF i + Len(pat) - 1 > Len(s) THEN 0
    ELSE IF SubSeq(s, i, i + Len(pat) - 1) = pat THEN i
    ELSE FindFrom(s, pat, i + 1)

\* extract_field_value: [panic, val]; the unwrap of the search for the
\* closing SOH panics when the field is not terminated
extract_field_value(tag, s) ==
    LET pat_prefix == IF tag = TAG_8 THEN <<>> ELSE <<SOH>>
        indx == FindFrom(s, pat_prefix \o tag \o <<EQUALS>>, 1)
        field_start_pos == indx + Len(pat_prefix)
        end_pos == FindByte(s, SOH, field_start_pos)
        start_pos == FindByte(s, EQUALS, field_start_pos)
    IN  IF indx = 0 THEN [panic |-> FALSE, val |-> <<>>]
        ELSE IF end_pos = 0 THEN [panic |-> TRUE, val |-> <<>>]
        ELSE [panic |-> FALSE, val |-> SubSeq(s, start_pos + 1, end_pos - 1)]

NoSessionId == SessionIdBuilder_build(
                   [SessionIdBuilder_default EXCEPT !.begin_string = Some(<<>>),
                                                    !.sender_compid = Some(<<>>),
                                                    !.target_compid = Some(<<>>)])

\* the builder chain of get_session_id / get_reverse_session_id on the
\* values extracted for the sender and the target triple
session_id_of(s, sender, target) ==
    LET v == [t \in {TAG_8} \cup {sender[i] : i \in 1..3} \cup {target[i] : i \in 1..3} |->
                 extract_field_value(t, s)]
    IN  IF \E t \in DOMAIN v : v[t].panic
        THEN [kind |-> "Panic", id |-> NoSessionId]
        ELSE [kind |-> "Ok",
              id |-> SessionIdBuilder_build(
                        [SessionIdBuilder_default EXCEPT
                            !.begin_string = Some(v[TAG_8].val),
                            !.sender_compid = Some(v[sender[1]].val),
                            !.sender_subid = Some(v[sender[2]].val),
                            !.sender_locationid = Some(v[sender[3]].val),
                            !.target_compid = Some(v[target[1]].val),
                            !.target_subid = Some(v[target[2]].val),
                            !.target_locationid = Some(v[target[3]].val)])]

\* Message::get_session_id
get_session_id(s) ==
    session_id_of(s, <<TAG_49, TAG_50, TAG_142>>, <<TAG_56, TAG_57, TAG_143>>)

\* sender and target read from the same tags as get_session_id
get_reverse_session_id_unswapped(s) ==
    session_id_of(s, <<TAG_49, TAG_50, TAG_142>>, <<TAG_56, TAG_57, TAG_143>>)

\* Message::get_reverse_session_id
get_reverse_session_id(s) ==
    session_id_of(s, <<TAG_56, TAG_57, TAG_143>>, <<TAG_49, TAG_50, TAG_142>>)

\* derive(PartialEq, Eq) on struct SessionId: every field is compared
SessionId_eq(a, b) ==
    /\ a.begin_string = b.begin_string
    /\ a.sender_compid = b.sender_compid
    /\ a.sender_subid = b.sender_subid
    /\ a.sender_locationid = b.sender_locationid
    /\ a.target_compid = b.target_compid
    /\ a.target_subid = b.target_subid
    /\ a.target_locationid = b.target_locationid
    /\ a.session_qualifier = b.session_qualifier
    /\ a.id = b.id

\* impl Hash for SessionId: the hasher is fed id alone
SessionId_hash(a) == a.id

\* SessionMap::get_session: a DashMap keyed by SessionId (Hash on id, Eq on
\* every field)
get_session(sessions, session_id) ==
    \E k \in sessions :
        SessionId_hash(k) = SessionId_hash(session_id) /\ SessionId_eq(k, session_id)

NotRouted == [kind |-> "None", id |-> NoSessionId, found |-> FALSE]

(***************************************************************************)
(* Inputs: dictionary documents                                            *)
(***************************************************************************)
XField(name, required) ==
    [tag |-> "field", name |-> name, required |-> required, children |-> <<>>]
XComponent(name, required) ==
    [tag |-> "component", name |-> name, required |-> required, children |-> <<>>]
XGroup(name, required, children) ==
    [tag |-> "group", name |-> name, required |-> required, children |-> children]
FieldDecl(number, name, type) ==
    [number |-> ToDecimal(number), name |-> name, type |-> type, values |-> <<>>]
YN(b) == IF b THEN "Y" ELSE "N"

STR_FIX == <<70, 73, 88>>
STR_4 == <<52>>
STR_3 == <<51>>
MSGTYPE_A == <<65>>
MSGTYPE_D == <<68>>
MSGTYPE_6 == <<54>>

FixFields ==
    << FieldDecl(8, "BeginString", "STRING"), FieldDecl(9, "BodyLength", "LENGTH"),
       FieldDecl(35, "MsgType", "STRING"), FieldDecl(49, "SenderCompID", "STRING"),
       FieldDecl(56, "TargetCompID", "STRING"), FieldDecl(10, "CheckSum", "STRING"),
       FieldDecl(93, "SignatureLength", "LENGTH"),
       FieldDecl(627, "NoHops", "NUMINGROUP"), FieldDecl(628, "HopCompID", "STRING"),
       FieldDecl(629, "HopSendingTime", "UTCTIMESTAMP"), FieldDecl(630, "HopRefID", "SEQNUM"),
       FieldDecl(11, "ClOrdID", "STRING"), FieldDecl(55, "Symbol", "STRING"),
       FieldDecl(78, "NoAllocs", "NUMINGROUP"), FieldDecl(79, "AllocAccount", "STRING"),
       FieldDecl(80, "AllocShares", "QTY"), FieldDecl(108, "HeartBtInt", "INT"),
       FieldDecl(136, "NoMiscFees", "NUMINGROUP"), FieldDecl(137, "MiscFeeAmt", "AMT"),
       FieldDecl(138, "MiscFeeCurr", "CURRENCY") >>

FixHeader ==
    << XField("BeginString", "Y"), XField("BodyLength", "Y"), XField("MsgType", "Y"),
       XField("SenderCompID", "Y"), XField("TargetCompID", "N"),
       XGroup("NoHops", "N", << XField("HopCompID", "N"), XField("HopSendingTime", "N"),
                                XField("HopRefID", "N") >>) >>

FixTrailer == << XField("SignatureLength", "N"), XField("CheckSum", "Y") >>

FixComponents ==
    << [name |-> "AllocGrp",
        children |-> << XGroup("NoAllocs", "Y",
                            << XField("AllocAccount", "Y"), XField("AllocShares", "N"),
                               XGroup("NoMiscFees", "N",
                                   << XField("MiscFeeAmt", "Y"), XField("MiscFeeCurr", "N") >>) >>) >>] >>

FixMessages ==
    << [name |-> "Logon", msgtype |-> MSGTYPE_A, msgcat |-> "admin",
        children |-> << XField("HeartBtInt", "Y") >>],
       [name |-> "NewOrderSingle", msgtype |-> MSGTYPE_D, msgcat |-> "app",
        children |-> << XField("ClOrdID", "Y"), XField("Symbol", "N"),
                        XComponent("AllocGrp", "Y") >>] >>

\* a FIX 4.3 dictionary: header, trailer, Logon and NewOrderSingle
DocFix ==
    [type |-> STR_FIX, major |-> STR_4, minor |-> STR_3,
     fields |-> FixFields, components |-> FixComponents,
     header |-> FixHeader, trailer |-> FixTrailer, messages |-> FixMessages]

\* the same dictionary with two further message elements whose msgtype
\* attributes are the strings HEADER_ID and TRAILER_ID
DocAliased ==
    [DocFix EXCEPT !.messages = @ \o
        << [name |-> "StandardHeader", msgtype |-> HEADER_ID, msgcat |-> "admin",
            children |-> FixHeader],
           [name |-> "StandardTrailer", msgtype |-> TRAILER_ID, msgcat |-> "admin",
            children |-> FixTrailer] >>]

ParserDocs == {DocFix, DocAliased}

TestFields ==
    << FieldDecl(1, "cfield1", "STRING"), FieldDecl(2, "cfield2", "STRING"),
       FieldDecl(3, "cfield3", "STRING"), FieldDecl(11, "gfield11", "CHAR"),
       FieldDecl(12, "gfield12", "STRING"), FieldDecl(32, "gfield32", "NUMINGROUP"),
       FieldDecl(92, "group2", "NUMINGROUP"), FieldDecl(101, "mfield1", "STRING") >>

\* message "6" includes component Outer (which includes component Inner) and
\* group group2 (which holds a sub-group); the six required attributes vary
NestedDoc(outerReq, innerReq, fieldReq, groupReq, groupFieldReq, subGroupReq) ==
    [type |-> STR_FIX, major |-> STR_4, minor |-> STR_3,
     fields |-> TestFields,
     components |->
        << [name |-> "Outer",
            children |-> << XField("cfield1", "Y"), XComponent("Inner", YN(innerReq)) >>],
           [name |-> "Inner",
            children |-> << XField("cfield2", YN(fieldReq)), XField("cfield3", "N") >>] >>,
     header |-> <<>>, trailer |-> <<>>,
     messages |->
        << [name |-> "MsgWithNesting", msgtype |-> MSGTYPE_6, msgcat |-> "app",
            children |->
                << XField("mfield1", "Y"),
                   XComponent("Outer", YN(outerReq)),
                   XGroup("group2", YN(groupReq),
                       << XField("gfield11", YN(groupFieldReq)),
                          XGroup("gfield32", YN(subGroupReq),
                              << XField("gfield12", "Y") >>) >>) >>] >>]

DictDocs ==
    {NestedDoc(a, b, c, d, e, f) : a \in BOOLEAN, b \in BOOLEAN, c \in BOOLEAN,
                                   d \in BOOLEAN, e \in BOOLEAN, f \in BOOLEAN}

MSGTYPE_8 == <<56>>

GroupTestFields ==
    << FieldDecl(1, "cfield1", "STRING"), FieldDecl(2, "cfield2", "STRING"),
       FieldDecl(3, "cfield3", "STRING"), FieldDecl(11, "gfield11", "CHAR"),
       FieldDecl(12, "gfield12", "STRING"), FieldDecl(21, "gfield21", "STRING"),
       FieldDecl(32, "gfield32", "NUMINGROUP"), FieldDecl(91, "group1", "NUMINGROUP"),
       FieldDecl(92, "group2", "NUMINGROUP"), FieldDecl(101, "mfield1", "STRING") >>

\* the three children of group2, opened by the component, the field or the
\* sub-group
GroupBody(shape, compReq, fieldReq, subGroupReq) ==
    LET comp == XComponent("CompG", YN(compReq))
        field == XField("gfield21", YN(fieldReq))
        sub == XGroup("gfield32", YN(subGroupReq), << XField("gfield12", "Y") >>)
    IN  IF shape = 1 THEN << comp, field, sub >>
        ELSE IF shape = 2 THEN << field, sub, comp >>
        ELSE << sub, comp, field >>

GroupShapes == 1..3

\* message "8" includes component Comp (a field and group group1) and group
\* group2 (component CompG, which includes component Leaf, a field and
\* sub-group gfield32); the required attributes and the order of group2's
\* children vary
GroupDoc(shape, compReq, cfieldReq, group1Req, group2Req, compGReq, cfield2Req, gfieldReq, subGroupReq) ==
    [type |-> STR_FIX, major |-> STR_4, minor |-> STR_3,
     fields |-> GroupTestFields,
     components |->
        << [name |-> "Comp",
            children |-> << XField("cfield1", YN(cfieldReq)),
                            XGroup("group1", YN(group1Req),
                                   << XField("gfield11", "Y") >>) >>],
           [name |-> "CompG",
            children |-> << XComponent("Leaf", "N"), XField("cfield2", YN(cfield2Req)) >>],
           [name |-> "Leaf", children |-> << XField("cfield3", "Y") >>] >>,
     header |-> <<>>, trailer |-> <<>>,
     messages |->
        << [name |-> "MsgWithGroups", msgtype |-> MSGTYPE_8, msgcat |-> "app",
            children |->
                << XField("mfield1", "Y"),
                   XComponent("Comp", YN(compReq)),
                   XGroup("group2", YN(group2Req),
                          GroupBody(shape, compGReq, gfieldReq, subGroupReq)) >>] >>]

GroupDocs ==
    {GroupDoc(s, a, b, c, d, e, f, g, h) :
        s \in GroupShapes, a \in BOOLEAN, b \in BOOLEAN, c \in BOOLEAN, d \in BOOLEAN,
        e \in BOOLEAN, f \in BOOLEAN, g \in BOOLEAN, h \in BOOLEAN}

MaxDecls == 2           \* most field elements of a generated fields section

NUM_1 == <<DIGIT0 + 1>>                                 \* "1"
NUM_2 == <<DIGIT0 + 2>>                                 \* "2"
NUM_01 == <<DIGIT0, DIGIT0 + 1>>                        \* "01"

\* field elements: three number attributes (two of them the same number),
\* two names, and no enum values, two distinct ones or the same one twice
FieldElements ==
    {[number |-> n, name |-> nm, type |-> "STRING", values |-> v] :
        n \in {NUM_1, NUM_2, NUM_01}, nm \in {"FieldA", "FieldB"},
        v \in {<<>>, <<"x", "y">>, <<"x", "x">>}}

\* documents that consist of a fields section
FieldsDoc(fields) ==
    [type |-> STR_FIX, major |-> STR_4, minor |-> STR_3, fields |-> fields,
     components |-> <<>>, header |-> <<>>, trailer |-> <<>>, messages |-> <<>>]

FieldDocs == {FieldsDoc(fs) : fs \in UNION {[1..k -> FieldElements] : k \in 0..MaxDecls}}

NotLoaded == [err |-> "NotLoaded", dd |-> DataDictionary_default, num |-> 0]
NoDoc == [type |-> <<>>, major |-> <<>>, minor |-> <<>>, fields |-> <<>>,
          components |-> <<>>, header |-> <<>>, trailer |-> <<>>, messages |-> <<>>]

(***************************************************************************)
(* Dictionary loading                                                      *)
(***************************************************************************)
InitDict ==
    /\ doc \in DictDocs \cup ParserDocs \cup GroupDocs \cup FieldDocs
    /\ dict = NotLoaded
    /\ raw = <<>>
    /\ parsed = NotParsed
    /\ wire = <<>>
    /\ outbox = NoMessage
    /\ session_map = {}
    /\ route = NotRouted
    /\ EngineIdle
    /\ WriterIdle
    /\ ScheduleIdle
    /\ SettingsIdle
    /\ ReaderIdle

\* DataDictionary::from_xml / from_str on the configured document
LoadDictionary ==
    /\ dict = NotLoaded
    /\ dict' = DataDictionary_from_str(doc)
    /\ UNCHANGED <<doc, raw, parsed, wire, outbox, session_map, route, engine_vars, writer_vars, schedule_vars, settings_vars, reader_vars>>

NextDict == LoadDictionary

SpecDict == InitDict /\ [][NextDict]_vars

(***************************************************************************)
(* Inputs: raw inbound messages                                            *)
(***************************************************************************)
MaxFields == 3          \* longest sequence of arbitrary fields
MaxCount == 2           \* largest declared NumInGroup
MaxInstances == 2       \* most group instances on the wire
MaxSends == 1           \* strings handed to the writer channel

STR_FIX43 == <<70, 73, 88, 46, 52, 46, 51>>            \* "FIX.4.3"
VAL_S == <<83>>                                         \* "S"
VAL_T == <<84>>                                         \* "T"
VAL_X == <<120>>                                        \* "x"

\* "tag=value"
Fld(tag, value) == ToDecimal(tag) \o <<EQUALS>> \o value

\* every field followed by SOH
Frame(fields) == Concat([i \in 1..Len(fields) |-> fields[i] \o <<SOH>>])

\* sequences of length 0..n over S
SeqsUpTo(S, n) == UNION {[1..k -> S] : k \in 0..n}

\* sequences without repetition over S
Arrangements(S) == UNION {Perms(T) : T \in SUBSET S}

\* fields a peer may send, well-formed or not
Fragments ==
    { Fld(8, STR_FIX43), Fld(9, <<DIGIT0 + 5>>), Fld(35, MSGTYPE_A), Fld(35, MSGTYPE_D),
      Fld(10, <<DIGIT0, DIGIT0, DIGIT0>>),
      <<UPPER_A, EQUALS, DIGIT0 + 1>>,                 \* "A=1": the tag is no number
      <<EQUALS, DIGIT0 + 1>>,                          \* "=1": the tag is empty
      <<DIGIT0 + 8>>,                                  \* "8": no '='
      <<DIGIT0 + 8, EQUALS>>,                          \* "8=": no value
      <<PLUS, DIGIT0 + 8, EQUALS>> \o VAL_X,          \* "+8=x"
      <<DIGIT0 + 8, EQUALS>> \o VAL_X \o <<EQUALS>> \o VAL_X,  \* "8=x=x"
      <<>> }                                           \* two SOH in a row

ArbitraryMessages == {Frame(fs) : fs \in SeqsUpTo(Fragments, MaxFields)}

\* a message framed as the FIX wire format prescribes around `middle`, the
\* fields between 9 and 10; lenDelta and sumDelta falsify tags 9 and 10
Framed(middle, lenDelta, sumDelta) ==
    LET body == Frame(middle)
        head == Frame(<<Fld(8, STR_FIX43), Fld(9, ToDecimal(Len(body) + lenDelta))>>) \o body
    IN  head \o Frame(<<Fld(10, PadThree((SumBytes(head) + sumDelta) % 256))>>)

HeaderExtras == {Fld(49, VAL_S), Fld(56, VAL_T)}
BodyFields == {Fld(11, <<DIGIT0 + 1>>), Fld(55, VAL_X), Fld(108, <<DIGIT0 + 3>>)}
TrailerExtras == {Fld(93, <<DIGIT0 + 1>>)}

PlainMessages ==
    {Framed(<<Fld(35, t)>> \o h \o b \o x, dl, ds) :
        t \in {MSGTYPE_A, MSGTYPE_D}, h \in Arrangements(HeaderExtras),
        b \in {q \in Arrangements(BodyFields) : Len(q) <= 2},
        x \in Arrangements(TrailerExtras), dl \in {0, 1}, ds \in {0, 1}}

\* one group instance on the wire: the delimiter alone, with its second
\* field, or the two in the wrong order
InstanceShapes(delim, second) ==
    { <<Fld(delim, VAL_X)>>,
      <<Fld(delim, VAL_X), Fld(second, <<DIGIT0 + 1>>)>>,
      <<Fld(delim, VAL_S), Fld(second, <<DIGIT0 + 2>>)>> }

GroupRuns(count, delim, second) ==
    {<<Fld(count, ToDecimal(n))>> \o Concat(insts) :
        n \in 0..MaxCount, insts \in SeqsUpTo(InstanceShapes(delim, second), MaxInstances)}

GroupMessages ==
    {Framed(<<Fld(35, MSGTYPE_D), Fld(49, VAL_S)>> \o g \o <<Fld(11, <<DIGIT0 + 1>>)>>, 0, 0) :
        g \in GroupRuns(627, 628, 629)}
    \cup
    {Framed(<<Fld(35, MSGTYPE_D), Fld(49, VAL_S), Fld(11, <<DIGIT0 + 1>>)>> \o g \o b, 0, 0) :
        g \in GroupRuns(78, 79, 80), b \in {<<>>, <<Fld(55, VAL_X)>>}}
    \cup
    {Framed(<<Fld(35, MSGTYPE_D), Fld(49, VAL_S), Fld(55, VAL_X)>> \o g, 0, 0) :
        g \in {<<>>, <<Fld(78, <<DIGIT0 + 1>>), Fld(80, <<DIGIT0 + 1>>)>>,
               <<Fld(78, <<DIGIT0 + 1>>), Fld(79, VAL_X), Fld(80, <<DIGIT0 + 1>>),
                 Fld(79, VAL_S)>>,
               <<Fld(78, <<DIGIT0 + 1>>), Fld(80, <<DIGIT0 + 1>>), Fld(79, VAL_X)>>}}

\* NoAllocs groups whose instances hold a NoMiscFees group, with the nested
\* count tag behind the delimiter of its instance or ahead of it
NestedRuns ==
    {<<Fld(78, <<DIGIT0 + 1>>), Fld(79, VAL_X), Fld(136, <<DIGIT0 + 1>>), Fld(137, <<DIGIT0 + 1>>)>>,
     <<Fld(78, <<DIGIT0 + 2>>), Fld(79, VAL_X), Fld(136, <<DIGIT0 + 1>>), Fld(137, <<DIGIT0 + 1>>),
       Fld(79, VAL_S)>>,
     <<Fld(78, <<DIGIT0 + 2>>), Fld(79, VAL_X), Fld(136, <<DIGIT0>>), Fld(79, VAL_S)>>,
     <<Fld(78, <<DIGIT0 + 1>>), Fld(136, <<DIGIT0 + 1>>), Fld(137, <<DIGIT0 + 1>>), Fld(79, VAL_X)>>,
     <<Fld(78, <<DIGIT0 + 2>>), Fld(136, <<DIGIT0>>), Fld(79, VAL_X), Fld(79, VAL_S)>>}

NestedMessages ==
    {Framed(<<Fld(35, MSGTYPE_D), Fld(49, VAL_S), Fld(11, <<DIGIT0 + 1>>)>> \o g \o b, 0, 0) :
        g \in NestedRuns, b \in {<<>>, <<Fld(55, VAL_X)>>}}

\* NoHops groups with three fields to an instance: listed in the order of
\* the dictionary, or with HopRefID ahead of HopSendingTime in the first or
\* in the last instance
OrderRuns ==
    {<<Fld(627, ToDecimal(n))>> \o a \o b :
        n \in 1..MaxCount,
        a \in {<<Fld(628, VAL_X), Fld(629, <<DIGIT0 + 1>>), Fld(630, <<DIGIT0 + 1>>)>>,
                <<Fld(628, VAL_X), Fld(630, <<DIGIT0 + 1>>), Fld(629, <<DIGIT0 + 1>>)>>},
        b \in {<<>>, <<Fld(628, VAL_S), Fld(629, <<DIGIT0 + 2>>)>>,
                <<Fld(628, VAL_S), Fld(630, <<DIGIT0 + 2>>), Fld(629, <<DIGIT0 + 2>>)>>}}

OrderMessages ==
    {Framed(<<Fld(35, MSGTYPE_D), Fld(49, VAL_S)>> \o g \o <<Fld(11, <<DIGIT0 + 1>>)>>, 0, 0) :
        g \in OrderRuns}

\* messages whose trailer does not end the message with tag 10
TrailerMessages ==
    {Frame(<<Fld(8, STR_FIX43), Fld(9, <<DIGIT0 + 5>>), Fld(35, MSGTYPE_A), Fld(108, <<DIGIT0 + 3>>)>> \o t) :
        t \in {<<>>, <<Fld(93, <<DIGIT0 + 1>>)>>,
                <<Fld(10, <<DIGIT0, DIGIT0, DIGIT0>>), Fld(93, <<DIGIT0 + 1>>)>>,
                <<Fld(93, <<DIGIT0 + 1>>), Fld(55, VAL_X), Fld(10, <<DIGIT0, DIGIT0, DIGIT0>>)>>,
                <<Fld(10, <<DIGIT0, DIGIT0, DIGIT0>>), Fld(108, <<DIGIT0 + 3>>)>>,
                <<Fld(10, <<DIGIT0, DIGIT0, DIGIT0>>), Fld(49, VAL_S)>>}}

Inbound ==
    ArbitraryMessages \cup PlainMessages \cup GroupMessages
    \cup NestedMessages \cup OrderMessages \cup TrailerMessages

(***************************************************************************)
(* Inbound: the engine parses one raw message with the loaded dictionary   *)
(***************************************************************************)
InitParse ==
    /\ doc \in ParserDocs
    /\ dict = NotLoaded
    /\ raw = <<>>
    /\ parsed = NotParsed
    /\ wire = <<>>
    /\ outbox = NoMessage
    /\ session_map = {}
    /\ route = NotRouted
    /\ EngineIdle
    /\ WriterIdle
    /\ ScheduleIdle
    /\ SettingsIdle
    /\ ReaderIdle

\* Message::from_str(&s, &dd) on a raw message taken from socket_to_engine
FromStr(s) ==
    /\ dict.err = ""
    /\ parsed = NotParsed
    /\ raw' = s
    /\ parsed' = Message_from_str(s, dict.dd)
    /\ UNCHANGED <<doc, dict, wire, outbox, session_map, route, engine_vars, writer_vars, schedule_vars, settings_vars, reader_vars>>

NextParse == LoadDictionary \/ \E s \in Inbound : FromStr(s)

SpecParse == InitParse /\ [][NextParse]_vars

(***************************************************************************)
(* Outbound: the application builds a Message and hands it to a session    *)
(***************************************************************************)
STALE_LEN == <<DIGIT0 + 5>>                       \* "5"
STALE_SUM == <<DIGIT0, DIGIT0, DIGIT0>>           \* "000"

AppHeaderFields ==
    {StringField_new(8, STR_FIX43), StringField_new(35, MSGTYPE_A), StringField_new(9, STALE_LEN)}
AppBodyFields == {StringField_new(108, <<DIGIT0 + 3>>), StringField_new(55, VAL_X)}
AppTrailerFields == {StringField_new(10, STALE_SUM), StringField_new(93, <<DIGIT0 + 1>>)}

\* the calls of set_group the application makes: NoAllocs with its delimiter
AppGroupCalls == [tag : {78}, value : 0..MaxCount, delim : {79}]

\* most instances a Group is grown to
MaxGroupSize == 2

InitSend ==
    /\ doc = NoDoc
    /\ dict = NotLoaded
    /\ raw = <<>>
    /\ parsed = NotParsed
    /\ wire = <<>>
    /\ outbox = NoMessage
    /\ session_map = {}
    /\ route = NotRouted
    /\ EngineIdle
    /\ WriterIdle
    /\ ScheduleIdle
    /\ SettingsIdle
    /\ ReaderIdle

\* Message::new()
AppNew ==
    /\ outbox = NoMessage
    /\ Len(wire) < MaxSends
    /\ outbox' = Message_new
    /\ UNCHANGED <<doc, dict, raw, parsed, wire, session_map, route, engine_vars, writer_vars, schedule_vars, settings_vars, reader_vars>>

\* msg.header_mut().set_field(f)
AppSetHeader(f) ==
    /\ outbox # NoMessage
    /\ outbox' = [outbox EXCEPT !.header = set_field(@, f)]
    /\ UNCHANGED <<doc, dict, raw, parsed, wire, session_map, route, engine_vars, writer_vars, schedule_vars, settings_vars, reader_vars>>

\* msg.set_field(f)
AppSetBody(f) ==
    /\ outbox # NoMessage
    /\ outbox' = [outbox EXCEPT !.body = set_field(@, f)]
    /\ UNCHANGED <<doc, dict, raw, parsed, wire, session_map, route, engine_vars, writer_vars, schedule_vars, settings_vars, reader_vars>>

\* msg.trailer_mut().set_field(f)
AppSetTrailer(f) ==
    /\ outbox # NoMessage
    /\ outbox' = [outbox EXCEPT !.trailer = set_field(@, f)]
    /\ UNCHANGED <<doc, dict, raw, parsed, wire, session_map, route, engine_vars, writer_vars, schedule_vars, settings_vars, reader_vars>>

\* msg.set_group(tag, value, rep_grp_delimiter)
AppSetGroup(c) ==
    /\ outbox # NoMessage
    /\ Has(outbox.body.group, c.tag) => Group_size(outbox.body.group[c.tag]) + c.value <= MaxGroupSize
    /\ outbox' = [outbox EXCEPT !.body = set_group(@, c.tag, c.value, c.delim)]
    /\ UNCHANGED <<doc, dict, raw, parsed, wire, session_map, route, engine_vars, writer_vars, schedule_vars, settings_vars, reader_vars>>

\* msg.set_body_len()
AppSetBodyLen ==
    /\ outbox # NoMessage
    /\ outbox' = set_body_len(outbox)
    /\ UNCHANGED <<doc, dict, raw, parsed, wire, session_map, route, engine_vars, writer_vars, schedule_vars, settings_vars, reader_vars>>

\* msg.set_checksum()
AppSetChecksum ==
    /\ outbox # NoMessage
    /\ outbox' = set_checksum(outbox)
    /\ UNCHANGED <<doc, dict, raw, parsed, wire, session_map, route, engine_vars, writer_vars, schedule_vars, settings_vars, reader_vars>>

\* session.send_to_target(msg)
SendToTarget ==
    /\ outbox # NoMessage
    /\ \E s \in send_to_target_strings(outbox) : wire' = Append(wire, s)
    /\ outbox' = NoMessage
    /\ UNCHANGED <<doc, dict, raw, parsed, session_map, route, engine_vars, writer_vars, schedule_vars, settings_vars, reader_vars>>

\* Session::sync_send_to_target(&session_id, &sessions, msg)
SyncSendToTarget ==
    /\ outbox # NoMessage
    /\ \E s \in sync_send_to_target_strings(outbox) : wire' = Append(wire, s)
    /\ outbox' = NoMessage
    /\ UNCHANGED <<doc, dict, raw, parsed, session_map, route, engine_vars, writer_vars, schedule_vars, settings_vars, reader_vars>>

NextSend ==
    \/ AppNew
    \/ \E f \in AppHeaderFields : AppSetHeader(f)
    \/ \E f \in AppBodyFields : AppSetBody(f)
    \/ \E f \in AppTrailerFields : AppSetTrailer(f)
    \/ \E c \in AppGroupCalls : AppSetGroup(c)
    \/ AppSetBodyLen
    \/ AppSetChecksum
    \/ SendToTarget
    \/ SyncSendToTarget

SpecSend == InitSend /\ [][NextSend]_vars

(***************************************************************************)
(* Routing inbound messages to sessions                                    *)
(***************************************************************************)
VAL_EMPTY == <<>>

\* session sections: FIX.4.3, sender S, target T, each optional id unset or
\* "x", the sender sub id also set but empty
SessionSections ==
    {[k \in {"begin_string", "sender_comp_id", "target_comp_id"} \cup DOMAIN opt |->
         IF k = "begin_string" THEN STR_FIX43
         ELSE IF k = "sender_comp_id" THEN VAL_S
         ELSE IF k = "target_comp_id" THEN VAL_T
         ELSE opt[k]] :
        opt \in UNION {[K -> {VAL_X}] :
                          K \in SUBSET {"sender_sub_id", "sender_location_id",
                                        "target_sub_id", "target_location_id"}}
                \cup {[k \in {"sender_sub_id"} |-> VAL_EMPTY]}}

\* the [Default] section: empty, or giving every session a target sub id
DefaultSections == {<<>>, [k \in {"target_sub_id"} |-> VAL_X]}

\* the session T -> S, configured next to every session of the model
MirrorSection ==
    [k \in {"begin_string", "sender_comp_id", "target_comp_id"} |->
        IF k = "begin_string" THEN STR_FIX43
        ELSE IF k = "sender_comp_id" THEN VAL_T ELSE VAL_S]

STR_FIX42 == <<70, 73, 88, 46, 52, 46, 50>>            \* "FIX.4.2"

\* the id fields a peer may put into a header: comp ids S or T, each other
\* id absent or "x" (SenderSubID also present but empty)
IdFields ==
    {<<Fld(49, a), Fld(56, b)>> \o c \o d \o e \o f :
        a \in {VAL_S, VAL_T}, b \in {VAL_S, VAL_T},
        c \in {<<>>, <<Fld(50, VAL_X)>>, <<Fld(50, VAL_EMPTY)>>},
        d \in {<<>>, <<Fld(57, VAL_X)>>},
        e \in {<<>>, <<Fld(142, VAL_X)>>},
        f \in {<<>>, <<Fld(143, VAL_X)>>}}

Reversed(seq) == [i \in 1..Len(seq) |-> seq[Len(seq) + 1 - i]]

\* framed messages: 8, 9, 35, the id fields in either order, a body field
\* and 10
RoutedMessages ==
    {Frame(<<Fld(8, b), Fld(9, STALE_LEN), Fld(35, MSGTYPE_A)>> \o ids
           \o <<Fld(108, <<DIGIT0 + 3>>), Fld(10, STALE_SUM)>>) :
        b \in {STR_FIX43, STR_FIX42},
        ids \in IdFields \cup {Reversed(i) : i \in IdFields}}

InitRoute ==
    /\ doc = NoDoc
    /\ dict = NotLoaded
    /\ raw = <<>>
    /\ parsed = NotParsed
    /\ wire = <<>>
    /\ outbox = NoMessage
    /\ session_map \in {{SessionId_from_map(p, d), SessionId_from_map(MirrorSection, d)} :
                            p \in SessionSections, d \in DefaultSections}
    /\ route = NotRouted
    /\ EngineIdle
    /\ WriterIdle
    /\ ScheduleIdle
    /\ SettingsIdle
    /\ ReaderIdle

\* the reverse SessionId r and, unless computing it panicked, whether the
\* map holds it
lookup(sessions, r) ==
    [kind |-> r.kind, id |-> r.id, found |-> r.kind = "Ok" /\ get_session(sessions, r.id)]

\* start_receiver_task: get_reverse_session_id on the raw message, then
\* sessions.get_session
Receive(s) ==
    /\ route = NotRouted
    /\ raw' = s
    /\ route' = lookup(session_map, get_reverse_session_id(s))
    /\ UNCHANGED <<doc, dict, parsed, wire, outbox, session_map, engine_vars, writer_vars, schedule_vars, settings_vars, reader_vars>>

NextRoute == \E s \in RoutedMessages : Receive(s)

SpecRoute == InitRoute /\ [][NextRoute]_vars

(***************************************************************************)
(* The socket-read tasks and the receiver task                             *)
(* (src/src/io/acceptor.rs, src/src/network.rs)                            *)
(***************************************************************************)
Bind(v, Then(_)) == Then(v)

SOCKET_TO_ENGINE_CAPACITY == 64
CHECKSUM_PREFIX == <<49, 48, 61>>                       \* b"10="

\* read_message: read_until(SOH) chunk by chunk from position i of the
\* stream until a chunk starts with b"10="; the position of that chunk's
\* SOH, 0 while the stream does not hold such a chunk yet
RECURSIVE read_message(_, _)
read_message(stream, i) ==
    Bind(FindByte(stream, SOH, i), LAMBDA end :
        IF end = 0 THEN 0
        ELSE IF end - i >= 3 /\ SubSeq(stream, i, i + 2) = CHECKSUM_PREFIX THEN end
        ELSE read_message(stream, end + 1))

\* Session::verify
verify(msg, sessions) == "Ok"

\* the message the receiver task answers a failed verify with
test_logon == [Message_new EXCEPT !.header = set_field(@, StringField_new(35, MSGTYPE_A))]

\* what one iteration of the receiver task makes of a raw message: the
\* route, the parse, whether it panicked, its calls of from_app and the
\* strings it may have sent
Iteration(r, m, panic, from_app, sent) ==
    [route |-> r, parsed |-> m, panic |-> panic, from_app |-> from_app, sent |-> sent]

\* the body of the while loop of start_receiver_task, from the parse on
receive_parsed(r, m, sessions) ==
    IF m.kind = "Panic" THEN Iteration(r, m, TRUE, <<>>, {<<>>})
    ELSE IF m.kind = "Ok"
    THEN IF verify(m.msg, sessions) = "Ok"
         THEN Iteration(r, m, FALSE, <<[session_id |-> r.id, msg |-> m.msg]>>, {<<>>})
         ELSE Iteration(r, m, FALSE, <<>>,
                        {<<w>> : w \in sync_send_to_target_strings(test_logon)})
    ELSE Iteration(r, m, FALSE, <<>>, {<<>>})

\* the body of the while loop of start_receiver_task; the unwrap of the
\* session lookup panics when the map does not hold the reverse SessionId
receive(s, sessions, dd) ==
    Bind(lookup(sessions, get_reverse_session_id(s)), LAMBDA r :
        IF r.kind = "Panic" \/ ~r.found THEN Iteration(r, NotParsed, TRUE, <<>>, {<<>>})
        ELSE receive_parsed(r, Message_from_str(s, dd), sessions))

\* the session S -> T; MirrorSection is T -> S
PlainSection ==
    [k \in {"begin_string", "sender_comp_id", "target_comp_id"} |->
        IF k = "begin_string" THEN STR_FIX43
        ELSE IF k = "sender_comp_id" THEN VAL_S ELSE VAL_T]

MaxFrames == 2          \* most messages the first peer writes on its connection

\* NewOrderSingle messages a peer may write, each with a ClOrdID k of its
\* own: to session S -> T, to session T -> S, with a second SenderCompID,
\* with a field that has no '=', from an unknown SenderCompID, without
\* CompIDs
EngineKinds == {"ToS", "ToT", "Dup", "Malformed", "Unknown", "NoCompIds"}

EngineMessage(kind, k) ==
    Frame(<<Fld(8, STR_FIX43), Fld(9, STALE_LEN), Fld(35, MSGTYPE_D)>>
          \o (CASE kind = "ToT" -> <<Fld(49, VAL_S), Fld(56, VAL_T)>>
                [] kind = "Dup" -> <<Fld(49, VAL_T), Fld(56, VAL_S), Fld(49, VAL_X)>>
                [] kind = "Unknown" -> <<Fld(49, VAL_X), Fld(56, VAL_S)>>
                [] kind = "NoCompIds" -> <<>>
                [] OTHER -> <<Fld(49, VAL_T), Fld(56, VAL_S)>>)
          \o <<Fld(11, <<DIGIT0 + k>>)>>
          \o (IF kind = "Malformed" THEN <<VAL_X>> ELSE <<>>)
          \o <<Fld(10, STALE_SUM)>>)

\* the bytes the peers write: up to MaxFrames messages of any kind on
\* connection 1, at most one message to either session on connection 2
PeerStreams ==
    {<<Concat([i \in 1..Len(kinds) |-> EngineMessage(kinds[i], i)]), second>> :
        kinds \in UNION {[1..n -> EngineKinds] : n \in 0..MaxFrames},
        second \in {<<>>, EngineMessage("ToS", 0), EngineMessage("ToT", 0)}}

\* every session loads the dictionary in which the parser finds the header
\* and the trailer
InitEngine ==
    /\ doc = DocAliased
    /\ dict = DataDictionary_from_str(doc)
    /\ raw = <<>>
    /\ parsed = NotParsed
    /\ wire = <<>>
    /\ outbox = NoMessage
    /\ session_map = {SessionId_from_map(PlainSection, <<>>),
                      SessionId_from_map(MirrorSection, <<>>)}
    /\ route = NotRouted
    /\ inbound \in {[c \in DOMAIN st |-> [stream |-> st[c], pos |-> 1]] : st \in PeerStreams}
    /\ socket_to_engine = <<>>
    /\ receiver = "Running"
    /\ delivered = <<>>
    /\ WriterIdle
    /\ ScheduleIdle
    /\ SettingsIdle
    /\ ReaderIdle

\* start_socket_listener_task on connection c: read_message, then
\* to_app.send(raw_msg).await, which waits while the channel is full
SocketRead(c) ==
    /\ receiver = "Running"
    /\ Len(socket_to_engine) < SOCKET_TO_ENGINE_CAPACITY
    /\ Bind(read_message(inbound[c].stream, inbound[c].pos), LAMBDA end :
          /\ end # 0
          /\ socket_to_engine' =
                 Append(socket_to_engine, SubSeq(inbound[c].stream, inbound[c].pos, end))
          /\ inbound' = [inbound EXCEPT ![c].pos = end + 1])
    /\ UNCHANGED <<doc, dict, raw, parsed, wire, outbox, session_map, route,
                   receiver, delivered, writer_vars, schedule_vars, settings_vars, reader_vars>>

\* a receiver that takes the string sent last
blocking_recv_newest(rx) == [val |-> rx[Len(rx)], rest |-> SubSeq(rx, 1, Len(rx) - 1)]

\* rx.blocking_recv() on a channel that holds a string: the string sent
\* first, and what stays in the channel
blocking_recv(rx) == [val |-> Head(rx), rest |-> Tail(rx)]

\* start_receiver_task: one iteration of while let Some(s) = rx.blocking_recv()
ReceiverTask ==
    /\ receiver = "Running"
    /\ socket_to_engine # <<>>
    /\ Bind(receive(blocking_recv(socket_to_engine).val, session_map, dict.dd), LAMBDA it :
          /\ raw' = blocking_recv(socket_to_engine).val
          /\ route' = it.route
          /\ parsed' = it.parsed
          /\ receiver' = IF it.panic THEN "Panicked" ELSE "Running"
          /\ delivered' = delivered \o it.from_app
          /\ \E w \in it.sent : wire' = wire \o w)
    /\ socket_to_engine' = blocking_recv(socket_to_engine).rest
    /\ UNCHANGED <<doc, dict, outbox, session_map, inbound, writer_vars, schedule_vars, settings_vars, reader_vars>>

NextEngine == ReceiverTask \/ \E c \in DOMAIN inbound : SocketRead(c)

SpecEngine == InitEngine /\ [][NextEngine]_vars

(***************************************************************************)
(* The listener of one port and its socket-write tasks                     *)
(* (src/src/io/acceptor.rs, src/src/session/session_and_state.rs)          *)
(*                                                                         *)
(* wire is the log of the broadcast channel that IoAcceptor::create makes  *)
(* and that every session of the port holds as its responder.  A           *)
(* broadcast receiver is the index of the next string it will receive.     *)
(***************************************************************************)
ENGINE_TO_SOCKET_CAPACITY == 32
MaxSharedSends == 2     \* strings sent while two sessions share the port

\* strings sent while one session has the port to itself: enough to overrun
\* the channel
MaxBacklog == ENGINE_TO_SOCKET_CAPACITY + 2

\* the k-th string sent on the port, for session s
SessionMessage(s, k) ==
    Frame(<<Fld(49, s.sender_compid), Fld(56, s.target_compid), Fld(11, ToDecimal(k))>>)

InitWriter ==
    /\ doc = NoDoc
    /\ dict = NotLoaded
    /\ raw = <<>>
    /\ parsed = NotParsed
    /\ wire = <<>>
    /\ outbox = NoMessage
    /\ session_map \in {{SessionId_from_map(PlainSection, <<>>)},
                        {SessionId_from_map(PlainSection, <<>>),
                         SessionId_from_map(MirrorSection, <<>>)}}
    /\ route = NotRouted
    /\ EngineIdle
    /\ writers = <<>>
    /\ ScheduleIdle
    /\ SettingsIdle
    /\ ReaderIdle

\* IoAcceptor::start, one iteration of its loop: the peer of session s
\* connects (each peer once); the write half goes to a new socket-write
\* task with app_to_socket_send.subscribe(), a receiver that starts at the
\* tail of the channel
AcceptConnection(s) ==
    /\ \A c \in DOMAIN writers : writers[c].peer # s
    /\ writers' = Append(writers, [peer |-> s, from |-> Len(wire) + 1,
                                   next |-> Len(wire) + 1, written |-> <<>>,
                                   running |-> TRUE])
    /\ UNCHANGED <<doc, dict, raw, parsed, wire, outbox, session_map, route,
                   engine_vars, schedule_vars, settings_vars, reader_vars>>

\* Session::send_to_target / sync_send_to_target for session s: the string
\* goes to the responder, the broadcast sender, which never waits
Send(s) ==
    /\ Len(wire) < (IF Cardinality(session_map) = 1 THEN MaxBacklog ELSE MaxSharedSends)
    /\ wire' = Append(wire, SessionMessage(s, Len(wire) + 1))
    /\ UNCHANGED <<doc, dict, raw, parsed, outbox, session_map, route,
                   engine_vars, writer_vars, schedule_vars, settings_vars, reader_vars>>

\* from_app.recv() of a broadcast receiver at position next: Err(Lagged)
\* once more than the capacity of strings were sent from next on
broadcast_recv(channel, next) ==
    IF Len(channel) - (next - 1) > ENGINE_TO_SOCKET_CAPACITY
    THEN [ok |-> FALSE, val |-> <<>>]
    ELSE [ok |-> TRUE, val |-> channel[next]]

\* start_app_listner_task of connection c, one iteration of
\* while let Ok(msg) = from_app.recv().await: write_all(msg), or the end of
\* the loop on Err
SocketWrite(c) ==
    /\ writers[c].running
    /\ writers[c].next <= Len(wire)
    /\ Bind(broadcast_recv(wire, writers[c].next), LAMBDA r :
          writers' = [writers EXCEPT
                         ![c].running = r.ok,
                         ![c].next = IF r.ok THEN @ + 1 ELSE @,
                         ![c].written = IF r.ok THEN Append(@, r.val) ELSE @])
    /\ UNCHANGED <<doc, dict, raw, parsed, wire, outbox, session_map, route,
                   engine_vars, schedule_vars, settings_vars, reader_vars>>

NextWriter ==
    \/ \E s \in session_map : AcceptConnection(s)
    \/ \E s \in session_map : Send(s)
    \/ \E c \in DOMAIN writers : SocketWrite(c)

SpecWriter == InitWriter /\ [][NextWriter]_vars

(***************************************************************************)
(* Session schedule.  A date is a day number, a time of day one of         *)
(* SlotsPerDay instants, and `now` is Utc::now() already converted to the  *)
(* schedule's time zone.                                                   *)
(***************************************************************************)
SlotsPerDay == 3        \* times of day told apart

Weekdays == 0..6
Weekday(date) == date % 7
Times == 0..(SlotsPerDay - 1)
Dates == 7..13

\* Option::None of a time or a weekday
Absent == [some |-> FALSE, val |-> 0]

NoSchedule == [kind |-> "None"]
SchedulePanicked == [kind |-> "Panic"]

\* SessionSchedule::new
SessionSchedule_new(start_time, start_day, end_time, end_day, non_stop) ==
    [kind |-> "Schedule", start_time |-> start_time, start_day |-> start_day,
     end_time |-> end_time, end_day |-> end_day, is_non_stop |-> non_stop]

\* the four optional settings of one session
ScheduleSettings ==
    [start_time : {Absent} \cup {Some(t) : t \in Times}, end_time : {Absent} \cup {Some(t) : t \in Times},
     start_day : {Absent} \cup {Some(d) : d \in Weekdays}, end_day : {Absent} \cup {Some(d) : d \in Weekdays}]

\* SessionSchedule::create_schedule: the two panic!s, then the unwraps of
\* start_time and end_time in the call of new
create_schedule(settings) ==
    IF ~settings.start_time.some /\ ~settings.end_time.some
    THEN SchedulePanicked
    ELSE IF ~settings.start_time.some \/ ~settings.end_time.some
    THEN SchedulePanicked
    ELSE SessionSchedule_new(settings.start_time.val, settings.start_day,
                             settings.end_time.val, settings.end_day, FALSE)

and_time(date, time) == [date |-> date, time |-> time]

\* the order of NaiveDateTime
DateTimeLe(a, b) == a.date < b.date \/ (a.date = b.date /\ a.time <= b.time)

BoolText(b) == IF b THEN "True" ELSE "False"

\* the first loop of is_session_time: back from date to the start weekday,
\* -1 when the end weekday is stepped on
RECURSIVE weekly_start_date(_, _, _)
weekly_start_date(date, session_start_weekday, session_end_weekday) ==
    IF Weekday(date) = session_start_weekday THEN date
    ELSE IF Weekday(date - 1) = session_end_weekday THEN -1
    ELSE weekly_start_date(date - 1, session_start_weekday, session_end_weekday)

\* the second loop: forward from date to the end weekday, -1 when the start
\* weekday is stepped on
RECURSIVE weekly_end_date(_, _, _)
weekly_end_date(date, session_start_weekday, session_end_weekday) ==
    IF Weekday(date) = session_end_weekday THEN date
    ELSE IF Weekday(date + 1) = session_start_weekday THEN -1
    ELSE weekly_end_date(date + 1, session_start_weekday, session_end_weekday)

\* the weekly branch once both days are unwrapped
is_session_time_weekly(self, now_datetime) ==
    Bind(weekly_start_date(now_datetime.date, self.start_day.val, self.end_day.val), LAMBDA ws :
        IF ws = -1 THEN "False"
        ELSE Bind(weekly_end_date(now_datetime.date, self.start_day.val, self.end_day.val), LAMBDA we :
            IF we = -1 THEN "False"
            ELSE BoolText(/\ DateTimeLe(and_time(ws, self.start_time), now_datetime)
                          /\ DateTimeLe(now_datetime, and_time(we, self.end_time)))))

\* SessionSchedule::is_session_time
is_session_time(self, now_datetime) ==
    IF self.is_non_stop THEN "True"
    ELSE IF ~self.start_day.some /\ ~self.end_day.some
    THEN BoolText(/\ DateTimeLe(and_time(now_datetime.date, self.start_time), now_datetime)
                  /\ DateTimeLe(now_datetime, and_time(now_datetime.date, self.end_time)))
    ELSE IF ~self.start_day.some \/ ~self.end_day.some THEN "Panic"
    ELSE is_session_time_weekly(self, now_datetime)

InitSchedule ==
    /\ doc = NoDoc
    /\ dict = NotLoaded
    /\ raw = <<>>
    /\ parsed = NotParsed
    /\ wire = <<>>
    /\ outbox = NoMessage
    /\ session_map = {}
    /\ route = NotRouted
    /\ EngineIdle
    /\ WriterIdle
    /\ schedule = NoSchedule
    /\ now \in {and_time(d, t) : d \in Dates, t \in Times}
    /\ in_session = "None"
    /\ SettingsIdle
    /\ ReaderIdle

\* SessionSchedule::new(..) (also what SessionScheduleBuilder builds)
New(start_time, start_day, end_time, end_day, non_stop) ==
    /\ schedule = NoSchedule
    /\ schedule' = SessionSchedule_new(start_time, start_day, end_time, end_day, non_stop)
    /\ UNCHANGED <<doc, dict, raw, parsed, wire, outbox, session_map, route,
                   engine_vars, writer_vars, now, in_session, settings_vars, reader_vars>>

\* SessionSchedule::create_schedule(session_id, settings)
CreateSchedule(settings) ==
    /\ schedule = NoSchedule
    /\ schedule' = create_schedule(settings)
    /\ UNCHANGED <<doc, dict, raw, parsed, wire, outbox, session_map, route,
                   engine_vars, writer_vars, now, in_session, settings_vars, reader_vars>>

\* schedule.is_session_time()
IsSessionTime ==
    /\ schedule.kind = "Schedule"
    /\ in_session' = is_session_time(schedule, now)
    /\ UNCHANGED <<doc, dict, raw, parsed, wire, outbox, session_map, route,
                   engine_vars, writer_vars, schedule, now, settings_vars, reader_vars>>

\* the clock moves on to the next instant; the value returned before is
\* no longer the value for now
Tick ==
    /\ now' = IF now.time + 1 < SlotsPerDay THEN and_time(now.date, now.time + 1)
              ELSE and_time(now.date + 1, 0)
    /\ now'.date \in Dates
    /\ in_session' = "None"
    /\ UNCHANGED <<doc, dict, raw, parsed, wire, outbox, session_map, route,
                   engine_vars, writer_vars, schedule, settings_vars, reader_vars>>

NextSchedule ==
    \/ \E st \in Times, et \in Times, ns \in BOOLEAN :
           \E sd \in {Absent} \cup {Some(d) : d \in Weekdays}, ed \in {Absent} \cup {Some(d) : d \in Weekdays} :
               New(st, sd, et, ed, ns)
    \/ \E settings \in ScheduleSettings : CreateSchedule(settings)
    \/ IsSessionTime
    \/ Tick

SpecSchedule == InitSchedule /\ [][NextSchedule]_vars

(***************************************************************************)
(* Settings.  The file is a sequence of sections, each a header line       *)
(* ([Default] or another bracketed name) and the lines up to the next      *)
(* header; a line is `key = value` or a text without '='.                  *)
(***************************************************************************)
MaxSessions == 2        \* most [Session] sections of one file

ACCEPTOR_CONN_TYPE == <<97, 99, 99, 101, 112, 116, 111, 114>>        \* "acceptor"
INITIATOR_CONN_TYPE == <<105, 110, 105, 116, 105, 97, 116, 111, 114>> \* "initiator"
FIX44_BEGIN_STR == <<70, 73, 88, 46, 52, 46, 52>>                     \* "FIX.4.4"
STR_DEFAULT == <<68, 69, 70, 65, 85, 76, 84>>                         \* "DEFAULT"
VAL_PORT == <<DIGIT0 + 9>>                                             \* "9"
VAL_PORT_PLUS == <<PLUS, DIGIT0 + 9>>                                  \* "+9"

Line(key, val) == [eq |-> TRUE, key |-> key, val |-> val]
LineWithoutEquals == [eq |-> FALSE, key |-> "", val |-> <<>>]
Section(is_default, lines) == [is_default |-> is_default, lines |-> lines]

\* a parse that takes every text for a number
ParseU16_any(s) == [ok |-> TRUE, val |-> 0]

\* str::parse::<u16>
ParseU16(s) ==
    Bind(ParseU32(s), LAMBDA r :
        IF r.ok /\ r.val <= 65535 THEN r ELSE [ok |-> FALSE, val |-> 0])

\* impl Default for SessionId
SessionId_default ==
    SessionIdBuilder_build([SessionIdBuilder_default EXCEPT
        !.begin_string = Some(STR_DEFAULT), !.sender_compid = Some(<<>>), !.target_compid = Some(<<>>)])

\* HashMap::insert: the value of an equal key is replaced
Insert(map, key, val) == [k \in DOMAIN map \cup {key} |-> IF k = key THEN val ELSE map[k]]

\* parse_table: the unwrap of split_once('=') panics on a line without '='
RECURSIVE parse_table(_, _)
parse_table(lines, properties_so_far) ==
    IF lines = <<>> THEN [panic |-> FALSE, table |-> properties_so_far]
    ELSE IF ~Head(lines).eq THEN [panic |-> TRUE, table |-> <<>>]
    ELSE parse_table(Tail(lines), Insert(properties_so_far, Head(lines).key, Head(lines).val))

PropertiesPanic(reason) ==
    [kind |-> "Panic", reason |-> reason, default_session_id |-> SessionId_default, session_settings |-> <<>>]
PropertiesOk(session_settings) ==
    [kind |-> "Ok", reason |-> "", default_session_id |-> SessionId_default, session_settings |-> session_settings]

\* Properties::get_or_default::<F>, F one of "String" and "u16"; a u16 is
\* given back as its decimal text
get_or_default(self, session_id, name, F) ==
    Bind(IF session_id \in DOMAIN self.session_settings /\ Has(self.session_settings[session_id], name)
         THEN Some(self.session_settings[session_id][name])
         ELSE IF Has(self.session_settings[self.default_session_id], name)
         THEN Some(self.session_settings[self.default_session_id][name])
         ELSE None,
         LAMBDA found :
             IF ~found.some THEN None
             ELSE IF F = "String" THEN found
             ELSE IF ParseU16(found.val).ok THEN Some(ToDecimal(ParseU16(found.val).val))
             ELSE None)

\* Properties::default_property
default_property(self, name, F) == get_or_default(self, self.default_session_id, name, F)

\* Properties::session_ids
session_ids(self) ==
    {id \in DOMAIN self.session_settings : ~SessionId_eq(id, self.default_session_id)}

\* the checks of one session in the loop of Properties::check: "" when all
\* pass, the message of the first panic otherwise
check_session(self, session_id, connection_type) ==
    IF connection_type = ACCEPTOR_CONN_TYPE
       /\ ~get_or_default(self, session_id, "socket_accept_port", "u16").some
    THEN "acceptor port not found"
    ELSE IF connection_type # ACCEPTOR_CONN_TYPE
            /\ (\/ ~get_or_default(self, session_id, "socket_connect_host", "String").some
                \/ ~get_or_default(self, session_id, "socket_connect_port", "u16").some)
    THEN "socket connect host or port is missing"
    ELSE IF ~get_or_default(self, session_id, "begin_string", "String").some
    THEN "begin string is missing"
    ELSE IF get_or_default(self, session_id, "begin_string", "String").val
                \notin {STR_FIX42, STR_FIX43, FIX44_BEGIN_STR}
    THEN "invalid begin string"
    ELSE IF \/ ~get_or_default(self, session_id, "sender_comp_id", "String").some
            \/ ~get_or_default(self, session_id, "target_comp_id", "String").some
    THEN "sender and/or target compid missing"
    ELSE ""

\* Properties::check: the messages it can panic with, none when it returns;
\* the sessions are visited in the order of the HashMap, which is any order
check(self) ==
    IF ~default_property(self, "connection_type", "String").some
    THEN {"connection_type not found"}
    ELSE IF default_property(self, "connection_type", "String").val
                \notin {ACCEPTOR_CONN_TYPE, INITIATOR_CONN_TYPE}
    THEN {"invalid connection type"}
    ELSE {check_session(self, id, default_property(self, "connection_type", "String").val) :
              id \in session_ids(self)} \ {""}

\* the three unwraps of SessionId::from_map
from_map_panics(prop_map, defaults) ==
    \E key \in {"begin_string", "sender_comp_id", "target_comp_id"} :
        ~setting(prop_map, defaults, key).some

\* the loop of Properties::from_str from section i on: the settings map, or
\* the panic that ends it
RECURSIVE from_str_loop(_, _, _, _)
from_str_loop(sections, i, default_found, setting_map) ==
    IF i > Len(sections)
    THEN IF default_found THEN PropertiesOk(setting_map) ELSE PropertiesPanic("default section not found")
    ELSE IF sections[i].is_default
    THEN IF default_found THEN PropertiesPanic("duplicate default section found")
         ELSE Bind(parse_table(sections[i].lines, <<>>), LAMBDA t :
                  IF t.panic THEN PropertiesPanic("unwrap on None")
                  ELSE from_str_loop(sections, i + 1, TRUE,
                                     Insert(setting_map, SessionId_default, t.table)))
    ELSE IF default_found
    THEN Bind(parse_table(sections[i].lines, <<>>), LAMBDA t :
             IF t.panic \/ from_map_panics(t.table, setting_map[SessionId_default])
             THEN PropertiesPanic("unwrap on None")
             ELSE from_str_loop(sections, i + 1, TRUE,
                      Insert(setting_map, SessionId_from_map(t.table, setting_map[SessionId_default]), t.table)))
    ELSE from_str_loop(sections, i + 1, FALSE, setting_map)

\* Properties::from_str: the values it can produce
from_str(sections) ==
    Bind(from_str_loop(sections, 1, FALSE, <<>>), LAMBDA properties_made :
        IF properties_made.kind = "Panic" THEN {properties_made}
        ELSE IF check(properties_made) = {} THEN {properties_made}
        ELSE {PropertiesPanic(reason) : reason \in check(properties_made)})

\* a complete [Default] section of an acceptor
BaseDefaultLines ==
    <<Line("connection_type", ACCEPTOR_CONN_TYPE), Line("socket_accept_port", VAL_PORT),
      Line("begin_string", STR_FIX43), Line("sender_comp_id", VAL_S), Line("target_comp_id", VAL_T)>>

Drop(lines, key) == SelectSeq(lines, LAMBDA l : l.key # key)
Put(lines, key, val) == Append(Drop(lines, key), Line(key, val))

\* the same for an initiator
InitiatorDefaultLines ==
    Put(Put(Put(BaseDefaultLines, "connection_type", INITIATOR_CONN_TYPE),
            "socket_connect_host", VAL_X), "socket_connect_port", VAL_PORT)

\* [Default] sections: complete ones, and ones with a key missing, with an
\* illegal or unreadable value, or with a line that has no '='
DefaultLines ==
    {BaseDefaultLines, InitiatorDefaultLines, Append(BaseDefaultLines, LineWithoutEquals)}
    \cup {Drop(BaseDefaultLines, l.key) : l \in {BaseDefaultLines[i] : i \in 1..Len(BaseDefaultLines)}}
    \cup {Put(BaseDefaultLines, "connection_type", VAL_X), Put(BaseDefaultLines, "socket_accept_port", VAL_X),
          Put(BaseDefaultLines, "begin_string", STR_FIX), Put(BaseDefaultLines, "begin_string", STR_FIX42),
          Drop(InitiatorDefaultLines, "socket_connect_host"),
          Put(InitiatorDefaultLines, "socket_connect_port", VAL_X)}

\* [Session] sections: inheriting everything, overriding one key, naming a
\* qualifier, bringing every key themselves, or holding a line without '='
SessionLines ==
    {<<>>, <<LineWithoutEquals>>, Put(Put(BaseDefaultLines, "sender_comp_id", VAL_T), "target_comp_id", VAL_S)}
    \cup {<<Line(kv[1], kv[2])>> :
             kv \in {<<"sender_comp_id", VAL_X>>, <<"session_qualifier", VAL_X>>, <<"session_qualifier", VAL_S>>,
                     <<"begin_string", STR_FIX>>, <<"socket_accept_port", VAL_X>>,
                     <<"socket_accept_port", VAL_PORT_PLUS>>}}

\* the files: a [Default] section followed by up to MaxSessions sessions,
\* and files without a [Default] section, with two of them, or with a
\* session ahead of it
Configs ==
    {<<Section(TRUE, d)>> \o [i \in 1..Len(ss) |-> Section(FALSE, ss[i])] :
        d \in DefaultLines, ss \in UNION {[1..n -> SessionLines] : n \in 0..MaxSessions}}
    \cup {<<>>, <<Section(FALSE, BaseDefaultLines)>>,
          <<Section(TRUE, BaseDefaultLines), Section(TRUE, BaseDefaultLines)>>,
          <<Section(FALSE, <<Line("sender_comp_id", VAL_X)>>), Section(TRUE, BaseDefaultLines)>>,
          <<Section(FALSE, <<LineWithoutEquals>>), Section(TRUE, BaseDefaultLines), Section(FALSE, <<>>)>>}

PropertiesNone ==
    [kind |-> "None", reason |-> "", default_session_id |-> SessionId_default, session_settings |-> <<>>]
NotFetched == [session_id |-> SessionId_default, name |-> "", F |-> "", result |-> None]

\* a SessionId no section of a file yields
StrangerId == SessionId_from_map(MirrorSection, <<>>)

LookupNames == {"sender_comp_id", "socket_accept_port", "session_qualifier", "heartbeat_interval"}

InitSettings ==
    /\ doc = NoDoc
    /\ dict = NotLoaded
    /\ raw = <<>>
    /\ parsed = NotParsed
    /\ wire = <<>>
    /\ outbox = NoMessage
    /\ session_map = {}
    /\ route = NotRouted
    /\ EngineIdle
    /\ WriterIdle
    /\ ScheduleIdle
    /\ config \in Configs
    /\ properties = PropertiesNone
    /\ fetched = NotFetched
    /\ ReaderIdle

\* Properties::from_str(config)
LoadSettings ==
    /\ properties = PropertiesNone
    /\ \E made \in from_str(config) : properties' = made
    /\ UNCHANGED <<doc, dict, raw, parsed, wire, outbox, session_map, route,
                   engine_vars, writer_vars, schedule_vars, config, fetched,
                   reader_vars>>

\* properties.get_or_default::<F>(session_id, name)
GetOrDefault(session_id, name, F) ==
    /\ properties.kind = "Ok"
    /\ fetched' = [session_id |-> session_id, name |-> name, F |-> F,
                   result |-> get_or_default(properties, session_id, name, F)]
    /\ UNCHANGED <<doc, dict, raw, parsed, wire, outbox, session_map, route,
                   engine_vars, writer_vars, schedule_vars, config, properties,
                   reader_vars>>

NextSettings ==
    \/ LoadSettings
    \/ \E session_id \in DOMAIN properties.session_settings \cup {StrangerId} :
           \E name \in LookupNames, F \in {"String", "u16"} : GetOrDefault(session_id, name, F)

SpecSettings == InitSettings /\ [][NextSettings]_vars

(***************************************************************************)
(* Properties.  The wire format is read here byte by byte from `raw`,      *)
(* independently of the parser above.                                      *)
(***************************************************************************)
Range(seq) == {seq[i] : i \in 1..Len(seq)}

StartsWith(s, prefix) == Len(s) >= Len(prefix) /\ SubSeq(s, 1, Len(prefix)) = prefix

\* the fields of s from position i on: the bytes between one SOH and the next
RECURSIVE PiecesFrom(_, _)
PiecesFrom(s, i) ==
    IF i > Len(s) THEN <<>>
    ELSE LET j == FindByte(s, SOH, i)
         IN  IF j = 0 THEN <<SubSeq(s, i, Len(s))>>
             ELSE <<SubSeq(s, i, j - 1)>> \o PiecesFrom(s, j + 1)

WirePieces(s) == PiecesFrom(s, 1)

FirstEq(p) ==
    LET eqs == {i \in 1..Len(p) : p[i] = EQUALS}
    IN  IF eqs = {} THEN 0 ELSE CHOOSE i \in eqs : \A j \in eqs : i <= j

TagText(p) == SubSeq(p, 1, FirstEq(p) - 1)
ValueText(p) == SubSeq(p, FirstEq(p) + 1, Len(p))

\* the texts u32::from_str accepts: digits after an optional '+' (no text
\* used here is long enough to overflow)
Unsigned(t) == IF t # <<>> /\ t[1] = PLUS THEN Tail(t) ELSE t
IsUnsignedText(t) == Unsigned(t) # <<>> /\ \A i \in 1..Len(Unsigned(t)) : IsDigit(Unsigned(t)[i])

RECURSIVE TextToNat(_, _)
TextToNat(d, acc) ==
    IF d = <<>> THEN acc ELSE TextToNat(Tail(d), acc * 10 + (Head(d) - DIGIT0))

\* what is wrong with one field, "" when nothing is
Fault(p) ==
    IF FirstEq(p) = 0 \/ ~IsUnsignedText(TagText(p)) THEN "InvalidTag"
    ELSE IF ValueText(p) = <<>> THEN "TagSpecifiedWithoutValue"
    ELSE ""

\* the offending fields among the pieces P, and the earliest of them
Offenders(P) == {k \in 1..Len(P) : Fault(P[k]) # ""}
FirstOffender(P) == CHOOSE k \in Offenders(P) : \A j \in Offenders(P) : k <= j

\* the (tag, value) pairs of pieces without offending field
WireTokens(P) ==
    [k \in 1..Len(P) |-> StringField_new(TextToNat(Unsigned(TagText(P[k])), 0), ValueText(P[k]))]

TagsOf(T) == [k \in 1..Len(T) |-> T[k].tag]

FirstThreeAreHeader(T) ==
    /\ Len(T) >= 3
    /\ T[1].tag = BEGIN_STRING_TAG /\ T[2].tag = BODY_LENGTH_TAG /\ T[3].tag = MSG_TYPE_TAG

Parsed == parsed.kind # "None"

\* C1: every input that tokenises and whose first three tags are not 8, 9, 35
\* in that order (inputs of fewer than three fields included) is rejected
\* with TagSpecifiedOutOfOrder; parsing never succeeds and never aborts on it.
HeaderOrderEnforced ==
    LET P == WirePieces(raw)
    IN  (Parsed /\ Offenders(P) = {} /\ ~FirstThreeAreHeader(WireTokens(P)))
            => parsed = Reject("TagSpecifiedOutOfOrder")

\* C7: the input is split at SOH and every field at its first '='; a field
\* without '=', with an empty tag or with a tag that is no unsigned integer
\* is rejected with InvalidTag, a field with a valid tag and an empty value
\* with TagSpecifiedWithoutValue; the earliest offending field decides and no
\* Message is produced; without offending field the header, body and trailer
\* phases see exactly the (tag, value) pairs of the input.
TokenisationDecides ==
    LET P == WirePieces(raw)
    IN  Parsed =>
            IF Offenders(P) # {}
            THEN parsed = Reject(Fault(P[FirstOffender(P)]))
            ELSE parsed = from_vec(WireTokens(P), dict.dd)

\* a rejected message with two offending fields of different kinds after a
\* valid first field
TokenisationDecidesWitness ==
    LET P == WirePieces(raw)
    IN  /\ parsed.kind = "Err"
        /\ \E i \in Offenders(P) : \E j \in Offenders(P) :
              /\ 1 < i /\ i < j
              /\ i = FirstOffender(P)
              /\ Fault(P[i]) # Fault(P[j])
              /\ parsed.reason = Fault(P[i])

(***************************************************************************)
(* Framing, read from the bytes of a message                               *)
(***************************************************************************)
PREFIX_8 == <<DIGIT0 + 8, EQUALS>>                      \* "8="
PREFIX_9 == <<DIGIT0 + 9, EQUALS>>                      \* "9="
PREFIX_10 == <<DIGIT0 + 1, DIGIT0, EQUALS>>             \* "10="

\* s, of pieces P, is "8=..|9=..|....|10=..|"
HasFrame(s, P) ==
    /\ s # <<>> /\ s[Len(s)] = SOH
    /\ Len(P) >= 3
    /\ StartsWith(P[1], PREFIX_8)
    /\ StartsWith(P[2], PREFIX_9)
    /\ StartsWith(P[Len(P)], PREFIX_10)

\* the bytes from just after the 9 field's SOH up to and including the SOH
\* before "10="
BodyLengthOf(s, P) == Len(s) - (Len(P[1]) + 1) - (Len(P[2]) + 1) - (Len(P[Len(P)]) + 1)

\* the sum of all bytes before the 10 field, modulo 256
ChecksumOf(s, P) == SumBytes(SubSeq(s, 1, Len(s) - Len(P[Len(P)]) - 1)) % 256

BodyLengthValid(s, P) ==
    HasFrame(s, P) /\ ValueText(P[2]) = ToDecimal(BodyLengthOf(s, P))

ChecksumValid(s, P) ==
    HasFrame(s, P) /\ ValueText(P[Len(P)]) = PadThree(ChecksumOf(s, P))

(***************************************************************************)
(* The dictionary document, read directly                                  *)
(***************************************************************************)
DocNumber(d, name) ==
    TextToNat((CHOOSE f \in Range(d.fields) : f.name = name).number, 0)

NodesOf(nodes, tag) == {n \in Range(nodes) : n.tag = tag}
ComponentChildren(d, name) == (CHOOSE c \in Range(d.components) : c.name = name).children

\* the tags declared directly in a section
SectionTags(d, nodes) ==
    {DocNumber(d, n.name) : n \in NodesOf(nodes, "field") \cup NodesOf(nodes, "group")}

\* a group as the document declares it
GroupDecl(d, g, section, msg_type) ==
    [count |-> DocNumber(d, g.name),
     members |-> [i \in 1..Len(g.children) |-> DocNumber(d, g.children[i].name)],
     section |-> section, msg_type |-> msg_type]

HeaderGroups(d) == {GroupDecl(d, g, "header", <<>>) : g \in NodesOf(d.header, "group")}

BodyGroups(d) ==
    UNION {{GroupDecl(d, g, "body", m.msgtype) :
                g \in NodesOf(m.children, "group")
                      \cup UNION {NodesOf(ComponentChildren(d, c.name), "group") :
                                    c \in NodesOf(m.children, "component")}} :
           m \in {x \in Range(d.messages) : x.msgtype \notin {HEADER_ID, TRAILER_ID}}}

\* what the document says about sections and groups
DocView(d) ==
    [header |-> SectionTags(d, d.header) \cup UNION {Range(g.members) : g \in HeaderGroups(d)},
     trailer |-> SectionTags(d, d.trailer),
     groups |-> HeaderGroups(d) \cup BodyGroups(d),
     declared |-> {TextToNat(f.number, 0) : f \in Range(d.fields)}]

\* the section a tag belongs to on the wire: 1 header, 2 body, 3 trailer
Rank(V, tag) == IF tag \in V.header THEN 1 ELSE IF tag \in V.trailer THEN 3 ELSE 2
SectionName(r) == IF r = 1 THEN "header" ELSE IF r = 2 THEN "body" ELSE "trailer"

\* first tags 8, 9, 35, then further header fields, then body fields, then
\* trailer fields, framed with a true body length and checksum
WellFormed(s, P, T, V) ==
    /\ Offenders(P) = {}
    /\ FirstThreeAreHeader(T)
    /\ BodyLengthValid(s, P) /\ ChecksumValid(s, P)
    /\ \A k \in 1..3 : Rank(V, T[k].tag) = 1
    /\ \A k \in 1..(Len(T) - 1) : Rank(V, T[k].tag) <= Rank(V, T[k + 1].tag)

GroupCountTags(V) == {g.count : g \in V.groups}

NoTagTwice(T) == \A k \in 1..Len(T) : \A l \in 1..Len(T) : T[k].tag = T[l].tag => k = l

WellFormedWithoutGroups(s, P, T, V) ==
    /\ WellFormed(s, P, T, V)
    /\ \A k \in 1..Len(T) : T[k].tag \notin GroupCountTags(V)
    /\ NoTagTwice(T)

\* the tokens of T that belong to section r, as a map from tag to value
SectionFields(T, V, r) ==
    [t \in {T[k].tag : k \in {x \in 1..Len(T) : Rank(V, T[x].tag) = r}} |->
        (CHOOSE f \in Range(T) : f.tag = t).value]

SameMap(f, g) == DOMAIN f = DOMAIN g /\ \A x \in DOMAIN f : f[x] = g[x]

\* C2: a well-formed message without repeating groups is parsed
\* successfully with a dictionary loaded by DataDictionary::from_str; a token
\* lies in the header iff its tag is a header field of the dictionary, in the
\* trailer iff it is a trailer field, in the body otherwise, and
\* get_msg_type returns the value of tag 35.
PlainMessageParsed ==
    LET P == WirePieces(raw)
        T == WireTokens(P)
        V == DocView(doc)
    IN  (Parsed /\ WellFormedWithoutGroups(raw, P, T, V)) =>
            /\ parsed.kind = "Ok"
            /\ SameMap(parsed.msg.header.fields, SectionFields(T, V, 1))
            /\ SameMap(parsed.msg.body.fields, SectionFields(T, V, 2))
            /\ SameMap(parsed.msg.trailer.fields, SectionFields(T, V, 3))
            /\ get_msg_type(parsed.msg) = [ok |-> TRUE, val |-> T[3].value]

\* C5: a message is accepted only if tag 9 holds the number of bytes from
\* just after the 9 field's SOH up to and including the SOH before "10=" and
\* tag 10 the sum of all bytes before the 10 field modulo 256 as three
\* zero-padded digits; a wrong tag 9 is rejected with InvalidBodyLength, a
\* wrong tag 10 with InvalidChecksum.
FramingValidated ==
    LET P == WirePieces(raw)
        T == WireTokens(P)
    IN  (Parsed /\ Offenders(P) = {} /\ FirstThreeAreHeader(T) /\ HasFrame(raw, P)) =>
            /\ parsed.kind = "Ok" => BodyLengthValid(raw, P) /\ ChecksumValid(raw, P)
            /\ ~BodyLengthValid(raw, P) => parsed = Reject("InvalidBodyLength")
            /\ BodyLengthValid(raw, P) /\ ~ChecksumValid(raw, P)
                    => parsed = Reject("InvalidChecksum")

\* C6: a message of type M is rejected with RequiredTagMissing whenever a
\* tag of msg_required_fields[M] is absent from it, and is parsed
\* successfully when the tags it lacks are not required.
RequiredFieldsChecked ==
    LET P == WirePieces(raw)
        T == WireTokens(P)
        V == DocView(doc)
        missing == {t \in V.declared : /\ is_msg_req_field(dict.dd, T[3].value, t)
                                        /\ t \notin Range(TagsOf(T))}
    IN  (Parsed /\ WellFormedWithoutGroups(raw, P, T, V)) =>
            IF missing # {} THEN parsed = Reject("RequiredTagMissing")
            ELSE parsed.kind = "Ok"

\* C8: rendering the Message parsed from a correctly framed, accepted
\* string b yields exactly b, byte for byte.
RoundTrip ==
    LET P == WirePieces(raw)
    IN  (parsed.kind = "Ok" /\ BodyLengthValid(raw, P) /\ ChecksumValid(raw, P)) =>
            Message_to_string(parsed.msg) = {raw}

(***************************************************************************)
(* Repeating groups on the wire                                            *)
(***************************************************************************)
\* the last of the tokens after position p that belong to group g
RECURSIVE RunEnd(_, _, _)
RunEnd(T, g, p) ==
    IF p < Len(T) /\ T[p + 1].tag \in Range(g.members) THEN RunEnd(T, g, p + 1) ELSE p

Run(T, g, p) == SubSeq(T, p + 1, RunEnd(T, g, p))

MemberIndex(g, tag) == CHOOSE i \in 1..Len(g.members) : g.members[i] = tag
Delimiter(g) == g.members[1]

\* the positions in the run at which an instance begins
InstanceStarts(run, g) == {i \in 1..Len(run) : run[i].tag = Delimiter(g)}
InstanceCount(run, g) == Cardinality(InstanceStarts(run, g))

\* every instance begins with the delimiter and lists its fields in the
\* order of the dictionary
InstancesInOrder(run, g) ==
    /\ run # <<>> => run[1].tag = Delimiter(g)
    /\ \A i \in 2..Len(run) :
          \/ run[i].tag = Delimiter(g)
          \/ MemberIndex(g, run[i].tag) > MemberIndex(g, run[i - 1].tag)

\* the fields of the n-th instance, as a map from tag to value
InstanceFields(run, g, n) ==
    LET starts == InstanceStarts(run, g)
        from == CHOOSE i \in starts : Cardinality({x \in starts : x < i}) = n - 1
        later == {x \in starts : x > from}
        to == IF later = {} THEN Len(run)
              ELSE (CHOOSE x \in later : \A y \in later : x <= y) - 1
    IN  [t \in {run[i].tag : i \in from..to} |->
            (CHOOSE i \in from..to : run[i].tag = t).value]

\* the groups held by a well-formed message: [g, p] when the only count
\* field of the message is that of group g, at position p, with a number as
\* value and followed by instances in order
GroupCases(s, P, T, V) ==
    IF ~WellFormed(s, P, T, V) THEN {}
    ELSE {c \in [g : {x \in V.groups : x.section = "header" \/ x.msg_type = T[3].value},
                 p : {k \in 1..Len(T) : T[k].tag \in GroupCountTags(V)}] :
            /\ Cardinality({k \in 1..Len(T) : T[k].tag \in GroupCountTags(V)}) = 1
            /\ T[c.p].tag = c.g.count
            /\ IsUnsignedText(T[c.p].value)
            /\ InstancesInOrder(Run(T, c.g, c.p), c.g)}

DeclaredCount(T, p) == TextToNat(Unsigned(T[p].value), 0)

SectionMap(msg, section) == IF section = "header" THEN msg.header ELSE msg.body

\* C3: a group count field declaring n >= 1 followed by exactly n instances,
\* each beginning with the delimiter and listing its fields in dictionary
\* order, parses successfully; the Group has the dictionary's delimiter and
\* size n, and instance i holds the fields of the i-th instance.
GroupInstancesParsed ==
    LET P == WirePieces(raw)
        T == WireTokens(P)
        V == DocView(doc)
    IN  Parsed =>
        \A c \in GroupCases(raw, P, T, V) :
            LET run == Run(T, c.g, c.p)
                n == DeclaredCount(T, c.p)
            IN  (n >= 1 /\ InstanceCount(run, c.g) = n) =>
                    /\ parsed.kind = "Ok"
                    /\ Has(SectionMap(parsed.msg, c.g.section).group, c.g.count)
                    /\ LET group == SectionMap(parsed.msg, c.g.section).group[c.g.count]
                       IN  /\ group.delim = Delimiter(c.g)
                           /\ Group_size(group) = n
                           /\ \A i \in 1..n :
                                 SameMap(group.fields[i].fields, InstanceFields(run, c.g, i))

\* C4: a group count field declaring n is rejected with
\* IncorrectNumInGroupCountForRepeatingGroup whenever the number of
\* instances that follow differs from n.
GroupCountEnforced ==
    LET P == WirePieces(raw)
        T == WireTokens(P)
        V == DocView(doc)
    IN  Parsed =>
        \A c \in GroupCases(raw, P, T, V) :
            InstanceCount(Run(T, c.g, c.p), c.g) # DeclaredCount(T, c.p) =>
                parsed = Reject("IncorrectNumInGroupCountForRepeatingGroup")

(***************************************************************************)
(* Outbound strings                                                        *)
(***************************************************************************)
\* C9: every string handed to the writer channel carries tag 9 equal to the
\* byte length between the 9 field and the 10 field and tag 10 equal to the
\* three-digit checksum of the bytes before the 10 field, whatever the
\* Message held in tags 9 and 10 before it was sent.
SentStringsStamped ==
    \A i \in 1..Len(wire) :
        /\ BodyLengthValid(wire[i], WirePieces(wire[i]))
        /\ ChecksumValid(wire[i], WirePieces(wire[i]))

(***************************************************************************)
(* Required fields of nested components                                    *)
(***************************************************************************)
\* [m, c1, c2, f]: message m includes component c1, which includes
\* component c2, which declares field f
NestedFields(d) ==
    UNION {UNION {UNION {{[m |-> m, c1 |-> c1, c2 |-> c2, f |-> f] :
                            f \in NodesOf(ComponentChildren(d, c2.name), "field")} :
                         c2 \in NodesOf(ComponentChildren(d, c1.name), "component")} :
                  c1 \in NodesOf(m.children, "component")} :
           m \in Range(d.messages)}

Loaded == dict.err = ""

IsRequired(node) == node.required = "Y"

Tag(name) == DocNumber(doc, name)

\* C11: for a message M that includes component C directly, every field f
\* declared directly in C is in msg_fields[M], and is in
\* msg_required_fields[M] iff C is marked required in M and f is marked
\* required in C; a field declared directly in M is required iff it is
\* marked required.
ComponentFieldsRequired ==
    Loaded =>
        \A m \in Range(doc.messages) :
            /\ \A f \in NodesOf(m.children, "field") :
                  /\ is_msg_field(dict.dd, m.msgtype, Tag(f.name))
                  /\ is_msg_req_field(dict.dd, m.msgtype, Tag(f.name)) <=> IsRequired(f)
            /\ \A c \in NodesOf(m.children, "component") :
                  \A f \in NodesOf(ComponentChildren(doc, c.name), "field") :
                      /\ is_msg_field(dict.dd, m.msgtype, Tag(f.name))
                      /\ is_msg_req_field(dict.dd, m.msgtype, Tag(f.name))
                            <=> (IsRequired(c) /\ IsRequired(f))

\* a loaded dictionary in which a required field of an optional component is
\* a field of the message but not a required one
ComponentFieldsRequiredWitness ==
    /\ Loaded
    /\ \E m \in Range(doc.messages) :
          \E c \in NodesOf(m.children, "component") :
              \E f \in NodesOf(ComponentChildren(doc, c.name), "field") :
                  /\ ~IsRequired(c) /\ IsRequired(f)
                  /\ is_msg_field(dict.dd, m.msgtype, Tag(f.name))
                  /\ ~is_msg_req_field(dict.dd, m.msgtype, Tag(f.name))

(***************************************************************************)
(* Groups of a message                                                     *)
(***************************************************************************)
InnerDictionary(dd, msg_type, tag) == get_msg_group(dd, msg_type, tag).group_dd

\* the count tag of group g of message m is a field of m, required iff g
\* is; g's direct fields are fields of the inner dictionary only, required
\* there iff g and the field are required
GroupFieldsPlaced(m, g) ==
    /\ is_msg_field(dict.dd, m.msgtype, Tag(g.name))
    /\ is_msg_req_field(dict.dd, m.msgtype, Tag(g.name)) <=> IsRequired(g)
    /\ is_msg_group(dict.dd, m.msgtype, Tag(g.name))
    /\ \A f \in NodesOf(g.children, "field") :
          /\ is_msg_field(InnerDictionary(dict.dd, m.msgtype, Tag(g.name)),
                          m.msgtype, Tag(f.name))
          /\ ~is_msg_field(dict.dd, m.msgtype, Tag(f.name))
          /\ is_msg_req_field(InnerDictionary(dict.dd, m.msgtype, Tag(g.name)),
                              m.msgtype, Tag(f.name))
                <=> (IsRequired(g) /\ IsRequired(f))

HasRequiredSet(m, g) ==
    Has(InnerDictionary(dict.dd, m.msgtype, Tag(g.name)).msg_required_fields, m.msgtype)

GroupsInComponents(d) ==
    UNION {UNION {{[m |-> m, c |-> c, g |-> g] :
                      g \in NodesOf(ComponentChildren(d, c.name), "group")} :
                  c \in NodesOf(m.children, "component")} :
           m \in Range(d.messages)}

\* [m, p, g]: message m declares group p, which declares group g
GroupsInGroups(d) ==
    UNION {UNION {{[m |-> m, p |-> p, g |-> g] : g \in NodesOf(p.children, "group")} :
                  p \in NodesOf(m.children, "group")} :
           m \in Range(d.messages)}

\* in dictionary dd the count tag of g is required iff g and its encloser
\* are, g is registered, and g's fields are required in g's inner dictionary
\* iff g and the field are
NestedGroupPlaced(dd, msg_type, g, encloser) ==
    /\ is_msg_field(dd, msg_type, Tag(g.name))
    /\ is_msg_req_field(dd, msg_type, Tag(g.name)) <=> (IsRequired(g) /\ IsRequired(encloser))
    /\ is_msg_group(dd, msg_type, Tag(g.name))
    /\ \A f \in NodesOf(g.children, "field") :
          /\ is_msg_field(InnerDictionary(dd, msg_type, Tag(g.name)), msg_type, Tag(f.name))
          /\ is_msg_req_field(InnerDictionary(dd, msg_type, Tag(g.name)), msg_type,
                              Tag(f.name))
                <=> (IsRequired(g) /\ IsRequired(f))

\* C13: for a group G nested inside a component C (or inside another group
\* P), G's count tag is required in the enclosing dictionary iff both G and
\* its encloser are marked required, while the required set of G's inner
\* dictionary follows from G's own required attribute alone; a group nested
\* in a group is registered in the parent group's inner dictionary and not
\* in the message's top-level dictionary.
NestedGroupRequired ==
    Loaded =>
        /\ \A n \in GroupsInComponents(doc) :
              NestedGroupPlaced(dict.dd, n.m.msgtype, n.g, n.c)
        /\ \A n \in GroupsInGroups(doc) :
              /\ is_msg_group(dict.dd, n.m.msgtype, Tag(n.p.name))
              /\ NestedGroupPlaced(InnerDictionary(dict.dd, n.m.msgtype, Tag(n.p.name)),
                                   n.m.msgtype, n.g, n.p)
              /\ ~is_msg_group(dict.dd, n.m.msgtype, Tag(n.g.name))

\* a loaded dictionary where a required group sits in an optional component
\* and a required sub-group in an optional group: neither count tag is
\* required, yet each inner dictionary requires the group's required field
NestedGroupRequiredWitness ==
    /\ Loaded
    /\ \E n \in GroupsInComponents(doc) :
          /\ IsRequired(n.g) /\ ~IsRequired(n.c)
          /\ ~is_msg_req_field(dict.dd, n.m.msgtype, Tag(n.g.name))
          /\ is_msg_group(dict.dd, n.m.msgtype, Tag(n.g.name))
          /\ \E f \in NodesOf(n.g.children, "field") :
                is_msg_req_field(InnerDictionary(dict.dd, n.m.msgtype, Tag(n.g.name)),
                                 n.m.msgtype, Tag(f.name))
    /\ \E n \in GroupsInGroups(doc) :
          /\ IsRequired(n.g) /\ ~IsRequired(n.p)
          /\ is_msg_group(dict.dd, n.m.msgtype, Tag(n.p.name))
          /\ LET parent == InnerDictionary(dict.dd, n.m.msgtype, Tag(n.p.name))
             IN  /\ ~is_msg_req_field(parent, n.m.msgtype, Tag(n.g.name))
                     /\ is_msg_group(parent, n.m.msgtype, Tag(n.g.name))
                     /\ \E f \in NodesOf(n.g.children, "field") :
                           is_msg_req_field(
                               InnerDictionary(parent, n.m.msgtype, Tag(n.g.name)),
                               n.m.msgtype, Tag(f.name))

(***************************************************************************)
(* Components inside groups                                                *)
(***************************************************************************)
\* [m, g, c, f]: message m declares group g, which includes component c,
\* which declares field f
FieldsOfComponentsInGroups(d) ==
    UNION {UNION {UNION {{[m |-> m, g |-> g, c |-> c, f |-> f] :
                            f \in NodesOf(ComponentChildren(d, c.name), "field")} :
                         c \in NodesOf(g.children, "component")} :
                  g \in NodesOf(m.children, "group")} :
           m \in Range(d.messages)}

\* C14: for a component C included inside a group G, a field f of C is in
\* the required set of G's inner dictionary iff C is marked required in G
\* and f is marked required in C, whether or not G itself is required.
GroupComponentRequired ==
    Loaded =>
        \A n \in FieldsOfComponentsInGroups(doc) :
            /\ is_msg_group(dict.dd, n.m.msgtype, Tag(n.g.name))
            /\ is_msg_req_field(InnerDictionary(dict.dd, n.m.msgtype, Tag(n.g.name)),
                                n.m.msgtype, Tag(n.f.name))
                  <=> (IsRequired(n.c) /\ IsRequired(n.f))

\* a loaded dictionary where an optional group includes a required component
\* whose required field is required in the group's inner dictionary
GroupComponentRequiredWitness ==
    /\ Loaded
    /\ \E n \in FieldsOfComponentsInGroups(doc) :
          /\ ~IsRequired(n.g) /\ IsRequired(n.c) /\ IsRequired(n.f)
          /\ is_msg_group(dict.dd, n.m.msgtype, Tag(n.g.name))
          /\ is_msg_req_field(InnerDictionary(dict.dd, n.m.msgtype, Tag(n.g.name)),
                              n.m.msgtype, Tag(n.f.name))

(***************************************************************************)
(* Delimiter and field order of a group                                    *)
(***************************************************************************)
\* every group of document d with the dictionary dd that registers it:
\* groups of the header and of messages, of their components and of their
\* groups
RegisteredGroups(d, dd) ==
    {[home |-> dd, msg_type |-> to_ascii_lowercase(HEADER_ID), g |-> g] :
        g \in NodesOf(d.header, "group")}
    \cup UNION {{[home |-> dd, msg_type |-> m.msgtype, g |-> g] :
                    g \in NodesOf(m.children, "group")} : m \in Range(d.messages)}
    \cup {[home |-> dd, msg_type |-> n.m.msgtype, g |-> n.g] : n \in GroupsInComponents(d)}
    \cup {[home |-> InnerDictionary(dd, n.m.msgtype, Tag(n.p.name)),
           msg_type |-> n.m.msgtype, g |-> n.g] : n \in GroupsInGroups(d)}

\* the first field of a group body in declaration order
RECURSIVE FirstField(_, _)
FirstField(d, children) ==
    IF Head(children).tag = "component"
    THEN FirstField(d, ComponentChildren(d, Head(children).name))
    ELSE DocNumber(d, Head(children).name)

\* the tags of one instance in declaration order: components expanded in
\* place, a sub-group standing for its count tag
RECURSIVE InstanceOrder(_, _)
InstanceOrder(d, children) ==
    IF children = <<>> THEN <<>>
    ELSE (IF Head(children).tag = "component"
          THEN InstanceOrder(d, ComponentChildren(d, Head(children).name))
          ELSE << DocNumber(d, Head(children).name) >>)
         \o InstanceOrder(d, Tail(children))

NoDuplicates(seq) == \A i \in 1..Len(seq) : \A j \in 1..Len(seq) : seq[i] = seq[j] => i = j

\* C15: for every group, GroupInfo's delimiter is the tag of the first field
\* of the group body in XML declaration order: the first child's tag if
\* that child is a field, the first field of the component (expanded
\* recursively) if it is a component, the sub-group's count tag if it is a
\* group.
DelimiterIsFirstField ==
    Loaded =>
        \A r \in RegisteredGroups(doc, dict.dd) :
            /\ is_msg_group(r.home, r.msg_type, Tag(r.g.name))
            /\ get_msg_group(r.home, r.msg_type, Tag(r.g.name)).delimiter
                  = FirstField(doc, r.g.children)

\* a loaded dictionary with a group whose body opens with a component that
\* opens with a component, and whose delimiter is not the tag of the first
\* field child of the group
DelimiterIsFirstFieldWitness ==
    /\ Loaded
    /\ \E r \in RegisteredGroups(doc, dict.dd) :
          /\ Head(r.g.children).tag = "component"
          /\ Head(ComponentChildren(doc, Head(r.g.children).name)).tag = "component"
          /\ is_msg_group(r.home, r.msg_type, Tag(r.g.name))
          /\ get_msg_group(r.home, r.msg_type, Tag(r.g.name)).delimiter
                = FirstField(doc, r.g.children)
          /\ \E f \in NodesOf(r.g.children, "field") :
                get_msg_group(r.home, r.msg_type, Tag(r.g.name)).delimiter # Tag(f.name)

\* C16: for every group, get_ordered_fields() of its inner dictionary is
\* exactly the sequence of tags in XML declaration order for one instance,
\* each component's fields expanded in place and each sub-group contributing
\* only its count tag at its position, without duplicates.
FieldOrderIsDeclarationOrder ==
    Loaded =>
        \A r \in RegisteredGroups(doc, dict.dd) :
            /\ is_msg_group(r.home, r.msg_type, Tag(r.g.name))
            /\ get_ordered_fields(InnerDictionary(r.home, r.msg_type, Tag(r.g.name)))
                  = InstanceOrder(doc, r.g.children)
            /\ NoDuplicates(
                  get_ordered_fields(InnerDictionary(r.home, r.msg_type, Tag(r.g.name))))

\* a loaded dictionary with a group whose body holds a field, a component
\* and a sub-group, and whose inner dictionary orders four tags or more
FieldOrderIsDeclarationOrderWitness ==
    /\ Loaded
    /\ \E r \in RegisteredGroups(doc, dict.dd) :
          /\ NodesOf(r.g.children, "field") # {}
          /\ NodesOf(r.g.children, "component") # {}
          /\ NodesOf(r.g.children, "group") # {}
          /\ is_msg_group(r.home, r.msg_type, Tag(r.g.name))
          /\ Len(get_ordered_fields(InnerDictionary(r.home, r.msg_type, Tag(r.g.name)))) >= 4
          /\ get_ordered_fields(InnerDictionary(r.home, r.msg_type, Tag(r.g.name)))
                = InstanceOrder(doc, r.g.children)

(***************************************************************************)
(* Header and trailer queries                                              *)
(***************************************************************************)
DeclaredNumbers(d) == {TextToNat(f.number, 0) : f \in Range(d.fields)}

\* C17: after DataDictionary::from_str loads a complete XML,
\* is_header_field(t) is true exactly for the tags declared in the header
\* section and is_trailer_field(t) exactly for the tags declared in the
\* trailer section, and is_msg_group(HEADER_ID, t) is true for the count tag
\* of a header group.
HeaderTrailerQueries ==
    Loaded =>
        /\ \A t \in DeclaredNumbers(doc) :
              /\ is_header_field(dict.dd, t) <=> t \in SectionTags(doc, doc.header)
              /\ is_trailer_field(dict.dd, t) <=> t \in SectionTags(doc, doc.trailer)
        /\ \A g \in NodesOf(doc.header, "group") :
              is_msg_group(dict.dd, HEADER_ID, Tag(g.name))

(***************************************************************************)
(* The fields section                                                      *)
(***************************************************************************)
NumberOf(f) == TextToNat(f.number, 0)

\* C18: after add_fields_and_values succeeds on a fields section,
\* fields_by_tag and fields_by_name are mutually inverse: for every declared
\* field with number t and name n, fields_by_tag[t] = n and
\* fields_by_name[n] = t, and both maps and field_type have exactly as many
\* entries as there are field elements.
FieldMapsInverse ==
    Loaded =>
        /\ \A f \in Range(doc.fields) :
              /\ Has(dict.dd.fields_by_tag, NumberOf(f))
              /\ dict.dd.fields_by_tag[NumberOf(f)] = f.name
              /\ Has(dict.dd.fields_by_name, f.name)
              /\ dict.dd.fields_by_name[f.name] = NumberOf(f)
        /\ Cardinality(DOMAIN dict.dd.fields_by_tag) = Len(doc.fields)
        /\ Cardinality(DOMAIN dict.dd.fields_by_name) = Len(doc.fields)
        /\ Cardinality(DOMAIN dict.dd.field_type) = Len(doc.fields)

\* a generated fields section of the greatest length, one number written
\* with a leading zero, loaded into maps of that many entries
FieldMapsInverseWitness ==
    /\ Loaded
    /\ doc \in FieldDocs
    /\ Len(doc.fields) = MaxDecls
    /\ \E f \in Range(doc.fields) : f.number = NUM_01
    /\ Cardinality(DOMAIN dict.dd.fields_by_tag) = MaxDecls
    /\ Cardinality(DOMAIN dict.dd.fields_by_name) = MaxDecls

SharedNumber(fields) ==
    \E i \in 1..Len(fields) : \E j \in 1..Len(fields) :
        i # j /\ NumberOf(fields[i]) = NumberOf(fields[j])

SharedName(fields) ==
    \E i \in 1..Len(fields) : \E j \in 1..Len(fields) :
        i # j /\ fields[i].name = fields[j].name

RepeatedValue(fields) ==
    \E i \in 1..Len(fields) :
        \E k \in 1..Len(fields[i].values) : \E l \in 1..Len(fields[i].values) :
            k # l /\ fields[i].values[k] = fields[i].values[l]

\* C19: loading a fields section in which two field elements share a number,
\* or share a name, or in which one field lists the same enum value twice,
\* fails with DuplicateField and returns no dictionary.
DuplicatesRejected ==
    (dict # NotLoaded
     /\ (SharedNumber(doc.fields) \/ SharedName(doc.fields) \/ RepeatedValue(doc.fields)))
        => dict.err = "DuplicateField"

\* a fields section whose only flaw is an enum value listed twice, rejected
\* with DuplicateField
DuplicatesRejectedWitness ==
    /\ dict.err = "DuplicateField"
    /\ RepeatedValue(doc.fields)
    /\ ~SharedNumber(doc.fields)
    /\ ~SharedName(doc.fields)

(***************************************************************************)
(* Reverse session lookup                                                  *)
(***************************************************************************)
Carries(T, tag) == \E k \in 1..Len(T) : T[k].tag = tag
ValueOf(T, tag) == T[CHOOSE k \in 1..Len(T) : T[k].tag = tag].value

\* the message carries tag with the value of a mandatory id
Equals(T, tag, value) == Carries(T, tag) /\ ValueOf(T, tag) = value

\* the message carries tag with the value of an optional id the session
\* has, and does not carry it when the session lacks the id
Agrees(T, tag, id) == IF id.some THEN Equals(T, tag, id.val) ELSE ~Carries(T, tag)

\* the message with tokens T is addressed to session S by its peer
AddressedTo(T, S) ==
    /\ Equals(T, 8, S.begin_string)
    /\ Equals(T, 49, S.target_compid)
    /\ Agrees(T, 50, S.target_subid)
    /\ Agrees(T, 142, S.target_locationid)
    /\ Equals(T, 56, S.sender_compid)
    /\ Agrees(T, 57, S.sender_subid)
    /\ Agrees(T, 143, S.sender_locationid)

\* x with the sender and the target triple exchanged
Swapped(x) ==
    SessionIdBuilder_build(
        [SessionIdBuilder_default EXCEPT
            !.begin_string = Some(x.begin_string),
            !.sender_compid = Some(x.target_compid),
            !.sender_subid = x.target_subid,
            !.sender_locationid = x.target_locationid,
            !.target_compid = Some(x.sender_compid),
            !.target_subid = x.sender_subid,
            !.target_locationid = x.sender_locationid])

Routed == route.kind # "None"

\* C20: for every configured session S and every inbound raw message whose
\* tag 8 equals S's begin_string, whose tags 49/50/142 equal S's target
\* comp/sub/location ids and whose tags 56/57/143 equal S's sender
\* comp/sub/location ids (an optional id that S lacks being absent from the
\* message), get_reverse_session_id returns a SessionId equal to S, so the
\* registry lookup finds S; and get_reverse_session_id(s) is
\* get_session_id(s) with the sender and target triples swapped.
ReverseLookupFindsSession ==
    Routed =>
        /\ \A S \in session_map :
              AddressedTo(WireTokens(WirePieces(raw)), S)
                  => (route.kind = "Ok" /\ route.id = S /\ route.found)
        /\ get_session_id(raw).kind = "Ok"
              => (route.kind = "Ok" /\ route.id = Swapped(get_session_id(raw).id))

\* a message addressed to a session S -> T that has a sender sub id and no
\* target location id, routed to that session
ReverseLookupFindsSessionWitness ==
    /\ Routed
    /\ route.found
    /\ \E S \in session_map :
          /\ S.sender_compid = VAL_S
          /\ S.sender_subid.some
          /\ ~S.target_locationid.some
          /\ AddressedTo(WireTokens(WirePieces(raw)), S)
          /\ route.id = S

(***************************************************************************)
(* SessionId equality and hashing                                          *)
(***************************************************************************)
\* the SessionIds alive in a state: the keys of the map and the reverse
\* SessionId of the routed message
SessionIds == session_map \cup (IF route.kind = "Ok" THEN {route.id} ELSE {})

\* equal SessionIds have equal text and equal hashes
EqualImpliesSameText ==
    \A a, b \in SessionIds :
        SessionId_eq(a, b) => (a.id = b.id /\ SessionId_hash(a) = SessionId_hash(b))

\* C21: two SessionId values compare equal if and only if their canonical
\* textual forms are equal, and equal SessionIds hash equally; parts that do
\* not appear in the text do not affect equality or registry lookup (the
\* lookup finds a session exactly when a key of the map has the text of the
\* SessionId looked up).
SessionIdEqualityIsTextual ==
    /\ \A a, b \in SessionIds : SessionId_eq(a, b) <=> a.id = b.id
    /\ \A a, b \in SessionIds : SessionId_eq(a, b) => SessionId_hash(a) = SessionId_hash(b)
    /\ route.kind = "Ok" => (route.found <=> \E k \in session_map : k.id = route.id.id)

(***************************************************************************)
(* The receiver task                                                       *)
(***************************************************************************)
\* the receiver task has handled a message
Received == route.kind # "None"

\* a message that fails to parse leaves the receiver task running
ParseFailureSurvived == (Received /\ parsed.kind = "Err") => receiver = "Running"

\* C22: the receiver task keeps draining socket_to_engine after any inbound
\* raw message whatever its content: a message that fails to parse, that
\* lacks CompID tags, or whose reverse SessionId matches no configured
\* session never terminates or panics the task.
ReceiverNeverPanics == receiver = "Running"

MSGTYPE_REJECT == <<DIGIT0 + 3>>                        \* "3"

\* a session-level Reject is among the strings handed to the writer channel
RejectSent ==
    \E i \in 1..Len(wire) : Equals(WireTokens(WirePieces(wire[i])), 35, MSGTYPE_REJECT)

\* C23: whenever Message::from_str fails on an inbound raw message, the
\* receiver task puts a session-level Reject for that message on the writer
\* channel of the session the message was routed to (the iteration of the
\* receiver loop that handled the message has sent it).
ParseFailureRejected == (Received /\ parsed.kind = "Err") => RejectSent

(***************************************************************************)
(* The socket-write tasks                                                  *)
(***************************************************************************)
\* the session a string on the writer channel was sent for
SentFor(str, s) ==
    /\ Equals(WireTokens(WirePieces(str)), 49, s.sender_compid)
    /\ Equals(WireTokens(WirePieces(str)), 56, s.target_compid)

\* C24: when several sessions share one listening port and each has its own
\* accepted connection, a message sent for session S is written only to the
\* connection carrying S, never to the connection of another session or to
\* an earlier accepted connection on that port (of the strings sent once
\* every session of the port has its connection, a write task writes only
\* those sent for the session of its connection).
WrittenOnlyToOwnConnection ==
    (Cardinality(session_map) > 1 /\ Len(writers) = Cardinality(session_map)) =>
        \A c \in DOMAIN writers :
            \A i \in 1..Len(writers[c].written) :
                (\A d \in DOMAIN writers : writers[d].from <= writers[c].from + i - 1)
                    => SentFor(writers[c].written[i], writers[c].peer)

\* whatever a socket-write task has written is what was sent since it
\* subscribed, in send order and without gaps
WrittenInSendOrder ==
    \A c \in DOMAIN writers :
        writers[c].written = SubSeq(wire, writers[c].from, writers[c].next - 1)

\* C26: no outbound message is lost between the sender and the socket-write
\* task: the channel never holds more than its capacity (32) of strings a
\* write task has not written yet (the sender waits for room instead), no
\* write task stops with strings left to write, and each write task writes
\* the strings that were sent, in send order.
NoOutboundLoss ==
    \A c \in DOMAIN writers :
        /\ Len(wire) - (writers[c].next - 1) <= ENGINE_TO_SOCKET_CAPACITY
        /\ writers[c].running
        /\ writers[c].written = SubSeq(wire, writers[c].from, writers[c].next - 1)

(***************************************************************************)
(* Delivery order                                                          *)
(***************************************************************************)
\* the framed messages of a stream from position i on
RECURSIVE FramesFrom(_, _)
FramesFrom(stream, i) ==
    Bind(read_message(stream, i), LAMBDA end :
        IF end = 0 THEN <<>>
        ELSE <<SubSeq(stream, i, end)>> \o FramesFrom(stream, end + 1))

\* the messages that arrived on connection c and that the receiver task
\* has taken from socket_to_engine, in arrival order
Handled(c) ==
    SelectSeq(FramesFrom(SubSeq(inbound[c].stream, 1, inbound[c].pos - 1), 1),
              LAMBDA f : \A k \in 1..Len(socket_to_engine) : socket_to_engine[k] # f)

RECURSIVE Flatten(_)
Flatten(seqs) == IF seqs = <<>> THEN <<>> ELSE Head(seqs) \o Flatten(Tail(seqs))

\* the from_app calls for session S that the messages of frames make, in
\* the order of frames
CallsOf(frames, S) ==
    SelectSeq(Flatten([k \in 1..Len(frames) |->
                          receive(frames[k], session_map, dict.dd).from_app]),
              LAMBDA d : d.session_id = S)

\* the from_app calls made for session S with a message of connection c
DeliveredFrom(c, S) ==
    SelectSeq(delivered,
              LAMBDA d : /\ d.session_id = S
                         /\ \E f \in Range(FramesFrom(inbound[c].stream, 1)) :
                               <<d>> = receive(f, session_map, dict.dd).from_app)

\* C25: for each session, the application callback from_app receives that
\* session's successfully parsed messages in the order their bytes arrived
\* on the connection, under every interleaving of the socket-read tasks and
\* the receiver task.
DeliveredInArrivalOrder ==
    \A c \in DOMAIN inbound : \A S \in session_map :
        DeliveredFrom(c, S) = CallsOf(Handled(c), S)

\* two messages of connection 1 delivered to one session, a message of
\* connection 2 to the same session between them
DeliveredInArrivalOrderWitness ==
    /\ Len(delivered) = 3
    /\ \E S \in session_map :
          /\ Len(DeliveredFrom(1, S)) = 2
          /\ DeliveredFrom(2, S) = <<delivered[2]>>

(***************************************************************************)
(* Session::verify                                                         *)
(***************************************************************************)
\* the header of msg carries tag with this value
HeaderIs(msg, tag, value) ==
    get_field(msg.header, tag).ok /\ get_field(msg.header, tag).val = value

\* BeginString is the session's, SenderCompID and TargetCompID are the
\* session's identity reversed
MatchesSession(msg, S) ==
    /\ HeaderIs(msg, 8, S.begin_string)
    /\ HeaderIs(msg, 49, S.target_compid)
    /\ HeaderIs(msg, 56, S.sender_compid)

\* C27: Session::verify returns an error for any inbound message whose
\* BeginString differs from the session's or whose SenderCompID /
\* TargetCompID do not match the session's reversed identity, and only
\* messages for which verify succeeds are passed to from_app.
VerifyRejectsForeign ==
    /\ (Received /\ parsed.kind = "Ok" /\ ~MatchesSession(parsed.msg, route.id))
           => verify(parsed.msg, session_map) # "Ok"
    /\ \A i \in 1..Len(delivered) :
           /\ verify(delivered[i].msg, session_map) = "Ok"
           /\ MatchesSession(delivered[i].msg, delivered[i].session_id)

(***************************************************************************)
(* Outbound sequence numbers                                               *)
(***************************************************************************)
\* the values of the MsgSeqNum fields of one outbound string, in order
SeqNumsOf(str) ==
    LET T == WireTokens(WirePieces(str))
    IN  SelectSeq([k \in 1..Len(T) |-> IF T[k].tag = 34 THEN T[k].value ELSE <<>>],
                  LAMBDA v : v # <<>>)

\* C28: within a session, MsgSeqNum (tag 34) is strictly increasing across
\* outbound messages: every string handed to the writer channel carries one
\* numeric tag 34, stamped by the send, and a later string carries a larger
\* number than an earlier one.
SeqNumStrictlyIncreasing ==
    /\ \A i \in 1..Len(wire) :
           Len(SeqNumsOf(wire[i])) = 1 /\ IsUnsignedText(SeqNumsOf(wire[i])[1])
    /\ \A i, j \in 1..Len(wire) :
           i < j => TextToNat(Unsigned(SeqNumsOf(wire[i])[1]), 0)
                        < TextToNat(Unsigned(SeqNumsOf(wire[j])[1]), 0)

(***************************************************************************)
(* Session schedule windows                                                *)
(***************************************************************************)
Evaluated == in_session # "None"

IsDaily(s) ==
    s.kind = "Schedule" /\ ~s.is_non_stop /\ ~s.start_day.some /\ ~s.end_day.some

IsWeekly(s) ==
    s.kind = "Schedule" /\ ~s.is_non_stop /\ s.start_day.some /\ s.end_day.some

\* the time of day t lies in [start_time, end_time], a window that runs
\* over midnight when start_time > end_time
InDailyWindow(s, t) ==
    IF s.start_time <= s.end_time
    THEN s.start_time <= t /\ t <= s.end_time
    ELSE s.start_time <= t \/ t <= s.end_time

\* a daily schedule whose window does not run over midnight is evaluated as
\* its window says
DailyWindowSameDay ==
    (Evaluated /\ IsDaily(schedule) /\ schedule.start_time <= schedule.end_time)
        => in_session = BoolText(InDailyWindow(schedule, now.time))

\* C29: for a daily schedule, is_session_time() is true iff the current time
\* lies in [start_time, end_time]; when start_time > end_time the window
\* wraps past midnight: times at or after start_time and times at or before
\* end_time are in session.
DailyWindowObserved ==
    (Evaluated /\ IsDaily(schedule))
        => in_session = BoolText(InDailyWindow(schedule, now.time))

\* instants on one axis
Instant(date, time) == date * SlotsPerDay + time

Maximum(S) == CHOOSE x \in S : \A y \in S : y <= x
Minimum(S) == CHOOSE x \in S : \A y \in S : x <= y

\* the most recent occurrence of start_day at start_time, not after n
MostRecentStart(s, n) ==
    Maximum({Instant(d, s.start_time) : d \in {e \in (n.date - 7)..n.date :
                 Weekday(e) = s.start_day.val /\ Instant(e, s.start_time) <= Instant(n.date, n.time)}})

\* the occurrence of end_day at end_time that follows the instant start
FollowingEnd(s, start) ==
    Minimum({Instant(d, s.end_time) : d \in {e \in 0..21 :
                 Weekday(e) = s.end_day.val /\ Instant(e, s.end_time) >= start}})

InWeeklyWindow(s, n) ==
    Instant(n.date, n.time) <= FollowingEnd(s, MostRecentStart(s, n))

\* a weekly schedule is evaluated as its window says, unless the window
\* starts and ends on the same weekday with start_time > end_time
WeeklyWindowWithinWeek ==
    (/\ Evaluated
     /\ IsWeekly(schedule)
     /\ ~(schedule.start_day.val = schedule.end_day.val /\ schedule.start_time > schedule.end_time))
        => in_session = BoolText(InWeeklyWindow(schedule, now))

\* C30: for a weekly schedule, is_session_time() is true iff now lies
\* between the most recent occurrence of start_day at start_time and the
\* following occurrence of end_day at end_time, for every combination of
\* start_day, end_day and current weekday, windows over the end of the week
\* and windows whose start_day equals end_day included (a following end
\* that coincides with the start, same weekday and same time, counts as
\* following it).
WeeklyWindowObserved ==
    (Evaluated /\ IsWeekly(schedule))
        => in_session = BoolText(InWeeklyWindow(schedule, now))

(***************************************************************************)
(* Non-stop schedules                                                      *)
(***************************************************************************)
\* settings of a session that configures no schedule at all
Unscheduled(s) ==
    ~s.start_time.some /\ ~s.end_time.some /\ ~s.start_day.some /\ ~s.end_day.some

\* is_session_time() of a non-stop schedule answers true
NonStopAlwaysInSession ==
    (Evaluated /\ schedule.kind = "Schedule" /\ schedule.is_non_stop) => in_session = "True"

\* C31: for a session with neither start_time nor end_time configured,
\* create_schedule returns a non-stop schedule, and is_session_time() of a
\* non-stop schedule is true at every instant.
NonStopWhenUnscheduled ==
    [][/\ \A s \in ScheduleSettings :
              (Unscheduled(s) /\ CreateSchedule(s))
                  => (schedule'.kind = "Schedule" /\ schedule'.is_non_stop)
       /\ NonStopAlwaysInSession']_vars

(***************************************************************************)
(* Settings validation.  The file is read here line by line from `config`, *)
(* independently of the loader above.                                      *)
(***************************************************************************)
SettingsRead == properties.kind # "None"

\* the value the lines give key: that of the last line naming it
ValueIn(lines, key) ==
    IF \E i \in 1..Len(lines) : lines[i].eq /\ lines[i].key = key
    THEN Some(lines[Maximum({i \in 1..Len(lines) : lines[i].eq /\ lines[i].key = key})].val)
    ELSE None

\* the value a session has for key: its own, else the one of [Default]
Effective(d, lines, key) ==
    IF ValueIn(lines, key).some THEN ValueIn(lines, key) ELSE ValueIn(d, key)

DefaultSectionsOf(cfg) == {i \in 1..Len(cfg) : cfg[i].is_default}
FirstDefault(cfg) == Minimum(DefaultSectionsOf(cfg))

IsPortText(v) == v.some /\ ParseU32(v.val).ok /\ ParseU32(v.val).val <= 65535

\* connection_type of [Default] is missing or names neither role
BadConnectionType(d) ==
    ValueIn(d, "connection_type") \notin {Some(ACCEPTOR_CONN_TYPE), Some(INITIATOR_CONN_TYPE)}

\* a session lacks a required key or names an illegal begin_string; a port
\* `counts` when has_port says so
BadSession(d, lines, has_port(_)) ==
    \/ /\ ValueIn(d, "connection_type") = Some(ACCEPTOR_CONN_TYPE)
       /\ ~has_port(Effective(d, lines, "socket_accept_port"))
    \/ /\ ValueIn(d, "connection_type") = Some(INITIATOR_CONN_TYPE)
       /\ \/ ~Effective(d, lines, "socket_connect_host").some
          \/ ~has_port(Effective(d, lines, "socket_connect_port"))
    \/ Effective(d, lines, "begin_string") \notin {Some(STR_FIX42), Some(STR_FIX43), Some(FIX44_BEGIN_STR)}
    \/ ~Effective(d, lines, "sender_comp_id").some
    \/ ~Effective(d, lines, "target_comp_id").some

\* the load fails for the reasons the sentence lists, every section that is
\* not [Default] being a session
FailsAsStated(cfg) ==
    \/ DefaultSectionsOf(cfg) = {}
    \/ /\ DefaultSectionsOf(cfg) # {}
       /\ \/ BadConnectionType(cfg[FirstDefault(cfg)].lines)
          \/ \E i \in 1..Len(cfg) :
                 /\ ~cfg[i].is_default
                 /\ BadSession(cfg[FirstDefault(cfg)].lines, cfg[i].lines, LAMBDA v : v.some)

\* the identity a session section gives: begin string, comp ids, and the
\* sub and location ids that are not empty
IdentityOf(d, lines) ==
    [key \in {"begin_string", "sender_comp_id", "target_comp_id", "sender_sub_id",
              "sender_location_id", "target_sub_id", "target_location_id"} |->
        IF Effective(d, lines, key) = Some(<<>>) /\ key \notin {"begin_string", "sender_comp_id", "target_comp_id"}
        THEN None ELSE Effective(d, lines, key)]

\* section i follows [Default] and no later section has its identity
Surviving(cfg, i) ==
    /\ ~cfg[i].is_default
    /\ i > FirstDefault(cfg)
    /\ \A j \in (i + 1)..Len(cfg) :
           IdentityOf(cfg[FirstDefault(cfg)].lines, cfg[j].lines)
               # IdentityOf(cfg[FirstDefault(cfg)].lines, cfg[i].lines)

\* the load fails for one of the reasons the code has
Fails(cfg) ==
    \/ DefaultSectionsOf(cfg) = {}
    \/ /\ DefaultSectionsOf(cfg) # {}
       /\ \/ Cardinality(DefaultSectionsOf(cfg)) > 1
          \/ \E i \in FirstDefault(cfg)..Len(cfg) : \E k \in 1..Len(cfg[i].lines) : ~cfg[i].lines[k].eq
          \/ BadConnectionType(cfg[FirstDefault(cfg)].lines)
          \/ \E i \in (FirstDefault(cfg) + 1)..Len(cfg) :
                 \E key \in {"begin_string", "sender_comp_id", "target_comp_id"} :
                     ~Effective(cfg[FirstDefault(cfg)].lines, cfg[i].lines, key).some
          \/ \E i \in 1..Len(cfg) :
                 /\ Surviving(cfg, i)
                 /\ BadSession(cfg[FirstDefault(cfg)].lines, cfg[i].lines, IsPortText)

SessionSectionsOf(cfg) == {i \in 1..Len(cfg) : ~cfg[i].is_default}

\* the identity held by a SessionId, in the terms of the settings keys
IdentityIn(sid) ==
    [key \in {"begin_string", "sender_comp_id", "target_comp_id", "sender_sub_id",
              "sender_location_id", "target_sub_id", "target_location_id"} |->
        IF key = "begin_string" THEN Some(sid.begin_string)
        ELSE IF key = "sender_comp_id" THEN Some(sid.sender_compid)
        ELSE IF key = "target_comp_id" THEN Some(sid.target_compid)
        ELSE IF key = "sender_sub_id" THEN sid.sender_subid
        ELSE IF key = "sender_location_id" THEN sid.sender_locationid
        ELSE IF key = "target_sub_id" THEN sid.target_subid
        ELSE sid.target_locationid]

\* the sections of the file that are the session sid's own
OwnSections(cfg, sid) ==
    {i \in SessionSectionsOf(cfg) :
        i > FirstDefault(cfg) /\ IdentityOf(cfg[FirstDefault(cfg)].lines, cfg[i].lines) = IdentityIn(sid)}

\* the text the file gives session sid for name: from its own section,
\* else from [Default], else none
TextFor(cfg, sid, name) ==
    IF OwnSections(cfg, sid) # {}
    THEN Effective(cfg[FirstDefault(cfg)].lines, cfg[Maximum(OwnSections(cfg, sid))].lines, name)
    ELSE ValueIn(cfg[FirstDefault(cfg)].lines, name)

\* the text read as an F
ReadAs(v, F) ==
    IF F = "String" THEN v
    ELSE IF IsPortText(v) THEN Some(ToDecimal(ParseU32(v.val).val))
    ELSE None

\* get_or_default returns the session's own value when its section has the
\* key, otherwise the value of [Default], otherwise None
SessionOverridesDefault ==
    fetched.name # "" =>
        fetched.result = ReadAs(TextFor(config, fetched.session_id, fetched.name), fetched.F)

\* two [Session] sections never describe one session: they differ in the
\* identity or in the session_qualifier they have
SessionsDiffer(cfg) ==
    \A i, j \in SessionSectionsOf(cfg) :
        i # j => \E key \in DOMAIN IdentityIn(SessionId_default) \cup {"session_qualifier"} :
                     Effective(cfg[FirstDefault(cfg)].lines, cfg[i].lines, key)
                         # Effective(cfg[FirstDefault(cfg)].lines, cfg[j].lines, key)

\* C33: get_or_default(session, key) returns the value from the session's
\* own section when the key is present there, otherwise the value from the
\* [Default] section, otherwise None; a value in the session section
\* always overrides the default, and every [Session] section of the file
\* yields its own entry in session_ids().
EverySessionListed ==
    /\ SessionOverridesDefault
    /\ (properties.kind = "Ok" /\ SessionsDiffer(config))
           => Cardinality(session_ids(properties)) = Cardinality(SessionSectionsOf(config))

(***************************************************************************)
(* Groups nested in groups                                                 *)
(***************************************************************************)
\* [outer, inner]: group inner is declared inside group outer of a message
NestedGroups(d) ==
    UNION {UNION {{[outer |-> GroupDecl(d, g, "body", m.msgtype),
                    inner |-> GroupDecl(d, n, "body", m.msgtype)] :
                        n \in NodesOf(g.children, "group")} :
                  g \in NodesOf(m.children, "group")
                        \cup UNION {NodesOf(ComponentChildren(d, c.name), "group") :
                                      c \in NodesOf(m.children, "component")}} :
           m \in {x \in Range(d.messages) : x.msgtype \notin {HEADER_ID, TRAILER_ID}}}

\* the dictionary knows tag 35 as a header field and tag 10 as a trailer field
SectionsKnown == is_header_field(dict.dd, MSG_TYPE_TAG) /\ is_trailer_field(dict.dd, 10)

\* the tokens of T from position p that belong to group n.outer or to n.inner
NestedRunEnd(T, n, p) ==
    RunEnd(T, [members |-> n.outer.members \o n.inner.members], p)

\* [n, p, q]: the count field of n.outer is at p and is followed by a
\* delimiter; the count field of n.inner is at q inside an instance of
\* n.outer; both counts are the numbers of instances that follow
NestedCases(s, P, T, V) ==
    IF ~WellFormed(s, P, T, V) THEN {}
    ELSE {c \in [n : {x \in NestedGroups(doc) : x.outer.msg_type = T[3].value},
                 p : 1..Len(T), q : 1..Len(T)] :
            /\ T[c.p].tag = c.n.outer.count /\ T[c.q].tag = c.n.inner.count
            /\ c.p + 1 < c.q /\ c.q <= NestedRunEnd(T, c.n, c.p)
            /\ T[c.p + 1].tag = Delimiter(c.n.outer)
            /\ \A k \in (c.p + 1)..(c.q - 1) : T[k].tag \in Range(c.n.outer.members)
            /\ IsUnsignedText(T[c.p].value) /\ IsUnsignedText(T[c.q].value)
            /\ DeclaredCount(T, c.p) =
                   Cardinality({k \in (c.p + 1)..NestedRunEnd(T, c.n, c.p) :
                                   T[k].tag = Delimiter(c.n.outer)})
            /\ DeclaredCount(T, c.q) = InstanceCount(Run(T, c.n.inner, c.q), c.n.inner)
            /\ DeclaredCount(T, c.q) >= 1 => T[c.q + 1].tag = Delimiter(c.n.inner)}

\* the instance of n.outer that position q lies in
InstanceAt(T, n, p, q) ==
    Cardinality({k \in (p + 1)..q : T[k].tag = Delimiter(n.outer)})

\* C34: the count tag of a group nested in a group, met inside an instance
\* of the enclosing group, is parsed by recursion and the nested group is
\* stored inside that instance.
NestedGroupStored ==
    LET P == WirePieces(raw)
        T == WireTokens(P)
        V == DocView(doc)
    IN  (Parsed /\ SectionsKnown) =>
        \A c \in NestedCases(raw, P, T, V) :
            /\ parsed.kind = "Ok"
            /\ Has(parsed.msg.body.group, c.n.outer.count)
            /\ LET group == parsed.msg.body.group[c.n.outer.count]
                   i == InstanceAt(T, c.n, c.p, c.q)
               IN  /\ i <= Group_size(group)
                   /\ Has(group.fields[i].group, c.n.inner.count)

\* the nested count tags that follow the count tag of their enclosing group
\* at once, ahead of the first delimiter
NestedAhead(T) ==
    {c \in [n : {x \in NestedGroups(doc) : x.outer.msg_type = T[3].value}, p : 1..(Len(T) - 1)] :
        /\ T[c.p].tag = c.n.outer.count /\ IsUnsignedText(T[c.p].value)
        /\ T[c.p + 1].tag = c.n.inner.count
        /\ \A k \in 1..(c.p - 1) : T[k].tag \notin GroupCountTags(DocView(doc))}

\* a nested count tag ahead of the first delimiter of the enclosing group is
\* rejected with RequiredTagMissing
NestedAheadRejected ==
    LET P == WirePieces(raw)
        T == WireTokens(P)
        V == DocView(doc)
    IN  (Parsed /\ SectionsKnown /\ WellFormed(raw, P, T, V) /\ NestedAhead(T) # {})
            => parsed = Reject("RequiredTagMissing")

\* a message with a nested count tag inside an instance of its enclosing
\* group is rejected because the tag is not a group of the message
NestedGroupUndefined ==
    LET P == WirePieces(raw)
        T == WireTokens(P)
    IN  /\ Parsed /\ SectionsKnown
        /\ NestedCases(raw, P, T, DocView(doc)) # {}
        /\ parsed = Reject("TagNotDefinedForMsgType")

\* a message with the nested count tag ahead of the first delimiter, rejected
NestedAheadObserved ==
    LET P == WirePieces(raw)
        T == WireTokens(P)
    IN  /\ Parsed /\ SectionsKnown /\ WellFormed(raw, P, T, DocView(doc))
        /\ NestedAhead(T) # {}
        /\ parsed = Reject("RequiredTagMissing")

(***************************************************************************)
(* The order of the fields of a group instance                             *)
(***************************************************************************)
\* [g, p]: the only count field of a well-formed message is that of group g,
\* a group of plain fields, at position p; its value is the number of
\* instances that follow and the first of them begins with the delimiter
CountedCases(s, P, T, V) ==
    IF ~WellFormed(s, P, T, V) THEN {}
    ELSE {c \in [g : {x \in V.groups : x.section = "header" \/ x.msg_type = T[3].value},
                 p : {k \in 1..Len(T) : T[k].tag \in GroupCountTags(V)}] :
            /\ Cardinality({k \in 1..Len(T) : T[k].tag \in GroupCountTags(V)}) = 1
            /\ T[c.p].tag = c.g.count
            /\ \A n \in NestedGroups(doc) : n.outer.count # c.g.count
            /\ IsUnsignedText(T[c.p].value)
            /\ Run(T, c.g, c.p) # <<>>
            /\ Run(T, c.g, c.p)[1].tag = Delimiter(c.g)
            /\ InstanceCount(Run(T, c.g, c.p), c.g) = DeclaredCount(T, c.p)}

\* the positions of the run whose field stands earlier in the dictionary's
\* order than the field before it in the same instance
Inversions(run, g) ==
    {i \in 2..Len(run) :
        /\ run[i].tag # Delimiter(g) /\ run[i - 1].tag # Delimiter(g)
        /\ MemberIndex(g, run[i].tag) < MemberIndex(g, run[i - 1].tag)}

\* the number of the instance that position i of the run lies in
InstanceOf(run, g, i) == Cardinality({x \in InstanceStarts(run, g) : x <= i})

\* C35: a field of a group instance that stands earlier in the dictionary's
\* order than the field recorded before it in the same instance is rejected
\* with RepeatingGroupsOutOfOrder, and fields of different instances are
\* never compared.
InstanceOrderEnforced ==
    LET P == WirePieces(raw)
        T == WireTokens(P)
        V == DocView(doc)
    IN  (Parsed /\ SectionsKnown) =>
        \A c \in CountedCases(raw, P, T, V) :
            IF Inversions(Run(T, c.g, c.p), c.g) # {}
            THEN parsed = Reject("RepeatingGroupsOutOfOrder")
            ELSE parsed.reason # "RepeatingGroupsOutOfOrder"

\* the same for inversions ahead of the last instance, and for runs without
\* inversion
EarlierInstanceOrderEnforced ==
    LET P == WirePieces(raw)
        T == WireTokens(P)
        V == DocView(doc)
    IN  (Parsed /\ SectionsKnown) =>
        \A c \in CountedCases(raw, P, T, V) :
            LET run == Run(T, c.g, c.p)
            IN  /\ (\E i \in Inversions(run, c.g) :
                        InstanceOf(run, c.g, i) < DeclaredCount(T, c.p))
                        => parsed = Reject("RepeatingGroupsOutOfOrder")
                /\ Inversions(run, c.g) = {} => parsed.reason # "RepeatingGroupsOutOfOrder"

\* a group whose first instance ends with a later field than the second
\* begins with, without inversion, and which is not rejected for its order
OrderPerInstanceObserved ==
    LET P == WirePieces(raw)
        T == WireTokens(P)
    IN  /\ Parsed /\ SectionsKnown
        /\ \E c \in CountedCases(raw, P, T, DocView(doc)) :
              LET run == Run(T, c.g, c.p)
              IN  /\ Inversions(run, c.g) = {}
                  /\ \E i \in InstanceStarts(run, c.g) :
                        /\ i > 2 /\ i < Len(run)
                        /\ MemberIndex(c.g, run[i + 1].tag) < MemberIndex(c.g, run[i - 1].tag)
        /\ parsed.reason # "RepeatingGroupsOutOfOrder"

\* an inversion in the first of two instances, rejected for its order
OrderRejectionObserved ==
    LET P == WirePieces(raw)
        T == WireTokens(P)
    IN  /\ Parsed /\ SectionsKnown
        /\ \E c \in CountedCases(raw, P, T, DocView(doc)) :
              \E i \in Inversions(Run(T, c.g, c.p), c.g) :
                  InstanceOf(Run(T, c.g, c.p), c.g, i) < DeclaredCount(T, c.p)
        /\ parsed = Reject("RepeatingGroupsOutOfOrder")

(***************************************************************************)
(* The token that ends a group                                             *)
(***************************************************************************)
\* [g, p, mt]: the token at p is the count field, with a number as value,
\* of group g, which the loaded dictionary holds for the section or message
\* type mt
GroupCalls(T, V) ==
    {c \in [g : V.groups, p : 1..Len(T), mt : {HEADER_ID, T[3].value}] :
        /\ T[c.p].tag = c.g.count
        /\ IF c.g.section = "header" THEN c.mt = HEADER_ID ELSE c.mt = c.g.msg_type
        /\ is_msg_group(dict.dd, c.mt, c.g.count)
        /\ ParseU32(T[c.p].value).ok}

\* what the loop of parse_group returns for the call c
LoopResult(T, c) ==
    LET rg == get_msg_group(dict.dd, c.mt, c.g.count)
        fmap == set_group(FieldMap_new, c.g.count, ParseU32(T[c.p].value).val, rg.delimiter)
    IN  parse_group_loop(SubSeq(T, c.p + 1, Len(T)), fmap.group[c.g.count], -1, -1, c.mt, rg,
                         ParseU32(T[c.p].value).val, dict.dd)

\* the tags a Message holds: its fields and the count tags of its groups
HeldTags(fmap) == DOMAIN fmap.fields \cup DOMAIN fmap.group

\* C36: when the loop of parse_group ends without error, the queue it
\* leaves is the input from the first token that does not belong to the
\* group onwards, unchanged and in order; in an accepted message that token
\* and every other token is held by the header, the body or the trailer.
GroupLeavesForeignToken ==
    LET P == WirePieces(raw)
        T == WireTokens(P)
        V == DocView(doc)
    IN  (Parsed /\ Offenders(P) = {} /\ Len(T) >= 3) =>
            /\ \A c \in GroupCalls(T, V) :
                  LoopResult(T, c).err = "" =>
                      LoopResult(T, c).v = SubSeq(T, RunEnd(T, c.g, c.p) + 1, Len(T))
            /\ parsed.kind = "Ok" =>
                  \A k \in 1..Len(T) :
                      /\ T[k].tag \in HeldTags(parsed.msg.header)
                                      \cup HeldTags(parsed.msg.body)
                                      \cup HeldTags(parsed.msg.trailer)
                      /\ (NoTagTwice(T) /\ T[k].tag \notin GroupCountTags(V)) =>
                            \E part \in {parsed.msg.header, parsed.msg.body, parsed.msg.trailer} :
                                /\ Has(part.fields, T[k].tag)
                                /\ part.fields[T[k].tag] = T[k].value

\* an accepted message in which the count field of a group is followed by a
\* body field that is no field of the group, and the body holds that field
GroupLeavesForeignTokenWitness ==
    LET P == WirePieces(raw)
        T == WireTokens(P)
    IN  /\ parsed.kind = "Ok" /\ Offenders(P) = {} /\ Len(T) >= 3
        /\ \E c \in GroupCalls(T, DocView(doc)) :
              /\ c.p < Len(T)
              /\ RunEnd(T, c.g, c.p) = c.p
              /\ LoopResult(T, c).err = ""
              /\ Head(LoopResult(T, c).v) = T[c.p + 1]
              /\ Has(parsed.msg.body.fields, T[c.p + 1].tag)

(***************************************************************************)
(* The trailer on the wire                                                 *)
(***************************************************************************)
\* the positions of the trailer tags of T
TrailerPositions(T, V) == {k \in 1..Len(T) : T[k].tag \in V.trailer}

\* every token after the first trailer tag is a trailer field
OnlyTrailerAfterTrailer(T, V) ==
    \A k \in TrailerPositions(T, V) : \A l \in k..Len(T) : T[l].tag \in V.trailer

\* C37: an accepted message has only trailer fields of the dictionary after
\* its first trailer tag and tag 10 as its final field.
TrailerClosesMessage ==
    LET T == WireTokens(WirePieces(raw))
        V == DocView(doc)
    IN  parsed.kind = "Ok" =>
            /\ OnlyTrailerAfterTrailer(T, V)
            /\ T[Len(T)].tag = CHECKSUM_TAG

\* an accepted message has only trailer fields after its first trailer tag,
\* and a message in order up to its first trailer tag with another tag
\* after it is rejected with TagSpecifiedOutOfOrder
TrailerOrderEnforced ==
    LET P == WirePieces(raw)
        T == WireTokens(P)
        V == DocView(doc)
        first == CHOOSE k \in TrailerPositions(T, V) : \A l \in TrailerPositions(T, V) : k <= l
    IN  /\ parsed.kind = "Ok" => OnlyTrailerAfterTrailer(T, V)
        /\ (/\ Parsed /\ SectionsKnown /\ Offenders(P) = {} /\ FirstThreeAreHeader(T)
            /\ ~OnlyTrailerAfterTrailer(T, V)
            /\ \A k \in 1..(first - 1) : T[k].tag \notin GroupCountTags(V)
            /\ \A k \in 1..(first - 2) : Rank(V, T[k].tag) <= Rank(V, T[k + 1].tag))
                => parsed = Reject("TagSpecifiedOutOfOrder")

\* a message with a body field after its first trailer tag, rejected
TrailerOrderObserved ==
    LET T == WireTokens(WirePieces(raw))
        V == DocView(doc)
    IN  /\ Parsed /\ SectionsKnown /\ Offenders(WirePieces(raw)) = {} /\ FirstThreeAreHeader(T)
        /\ \E k \in TrailerPositions(T, V) : \E l \in k..Len(T) : Rank(V, T[l].tag) = 2
        /\ parsed = Reject("TagSpecifiedOutOfOrder")

\* an accepted message with a trailer whose final field is not tag 10
TrailerNotClosedObserved ==
    LET T == WireTokens(WirePieces(raw))
    IN  /\ parsed.kind = "Ok"
        /\ TrailerPositions(T, DocView(doc)) # {}
        /\ T[Len(T)].tag # CHECKSUM_TAG

(***************************************************************************)
(* Groups built by the application                                         *)
(***************************************************************************)
\* C38: after any sequence of set_field and set_group calls every Group of
\* the message has as many instances as its stored declared value, and its
\* count field holds that number.
GroupSizeMatchesCount ==
    \A tag \in DOMAIN outbox.body.group :
        LET group == outbox.body.group[tag]
        IN  /\ Group_size(group) = group.value
            /\ Has(outbox.body.fields, tag)
            /\ outbox.body.fields[tag] = ToDecimal(group.value)

\* the Group has the instances of all set_group calls made for its tag and
\* the declared value of the first of them
GroupGrowsWithCalls ==
    [][\A c \in AppGroupCalls :
          (AppSetGroup(c) /\ Has(outbox.body.group, c.tag)) =>
              /\ Group_size(outbox'.body.group[c.tag])
                     = Group_size(outbox.body.group[c.tag]) + c.value
              /\ outbox'.body.group[c.tag].value = outbox.body.group[c.tag].value
              /\ outbox'.body.fields[c.tag] = ToDecimal(c.value)]_vars

(***************************************************************************)
(* The order of the rendered fields                                        *)
(***************************************************************************)
\* the tags of a rendered string, in its order
RenderedTags(s) == TagsOf(WireTokens(WirePieces(s)))

Precedes(tags, a, b) ==
    \E i \in 1..Len(tags) : \E j \in 1..Len(tags) : i < j /\ tags[i] = a /\ tags[j] = b

\* the header of msg holds 8, 9 and 35 and the string begins with them
HeaderLeads(msg, tags) ==
    (\A t \in {BEGIN_STRING_TAG, BODY_LENGTH_TAG, MSG_TYPE_TAG} : Has(msg.header.fields, t))
        => SubSeq(tags, 1, 3) = <<BEGIN_STRING_TAG, BODY_LENGTH_TAG, MSG_TYPE_TAG>>

\* the trailer of msg holds tag 10 and the string ends with it
ChecksumCloses(msg, tags) ==
    Has(msg.trailer.fields, CHECKSUM_TAG) => tags[Len(tags)] = CHECKSUM_TAG

\* C39: a rendered message begins with 8, 9, 35, lists its body fields in
\* the order of their insertion and ends with tag 10: a body field set for
\* the first time is rendered after every body field set before it.
RenderedInInsertionOrder ==
    [][\A f \in AppBodyFields :
          (AppSetBody(f) /\ ~Has(outbox.body.fields, f.tag)) =>
              \A s \in Message_to_string(outbox') :
                  /\ HeaderLeads(outbox', RenderedTags(s))
                  /\ \A t \in DOMAIN outbox.body.fields : Precedes(RenderedTags(s), t, f.tag)
                  /\ ChecksumCloses(outbox', RenderedTags(s))]_vars

\* every rendering of a message whose header holds 8, 9 and 35 begins with
\* them in that order
HeaderRenderedFirst ==
    outbox # NoMessage =>
        \A s \in Message_to_string(outbox) : HeaderLeads(outbox, RenderedTags(s))

\* every rendering of a message whose trailer holds tag 10 ends with it
ChecksumRenderedLast ==
    outbox # NoMessage =>
        \A s \in Message_to_string(outbox) : ChecksumCloses(outbox, RenderedTags(s))

(***************************************************************************)
(* The socket-read task of one connection  (src/src/io/acceptor.rs)        *)
(*                                                                         *)
(* reader.pc is the place of the task: "read_until" before the read of     *)
(* read_message, "check" after it, "send" after read_message returned, and *)
(* "Panicked" once an unwrap has aborted the task.                         *)
(***************************************************************************)
MaxPeerWrites == 3      \* most writes the peer makes on the connection

\* what the peer writes at once: "8=x|", "10=0|", and "10=0" without SOH
PeerChunks ==
    {StringField_to_string(StringField_new(BEGIN_STRING_TAG, VAL_X)),
     CHECKSUM_PREFIX \o <<DIGIT0, SOH>>,
     CHECKSUM_PREFIX \o <<DIGIT0>>}

\* AsyncBufReadExt::read_until(SOH, buf) on the connection p: Ok(n) with the
\* bytes up to and including the first SOH, Ok(n) with all bytes left (none
\* included) once the peer has closed, Err on a broken connection, and
\* "Pending" while it waits for more bytes
read_until(p) ==
    Bind(FindByte(p.pending, SOH, 1), LAMBDA end :
        IF end # 0 THEN [kind |-> "Ok", n |-> end]
        ELSE IF p.state = "Closed" THEN [kind |-> "Ok", n |-> Len(p.pending)]
        ELSE IF p.state = "Failed" THEN [kind |-> "Err", n |-> 0]
        ELSE [kind |-> "Pending", n |-> 0])

\* String::from_utf8_lossy(&buf[..buf.len()]).to_string() on ASCII bytes
from_utf8_lossy(bytes) == bytes

InitReader ==
    /\ doc = NoDoc
    /\ dict = NotLoaded
    /\ raw = <<>>
    /\ parsed = NotParsed
    /\ wire = <<>>
    /\ outbox = NoMessage
    /\ session_map = {}
    /\ route = NotRouted
    /\ EngineIdle
    /\ WriterIdle
    /\ ScheduleIdle
    /\ SettingsIdle
    /\ peer = [pending |-> <<>>, writes |-> 0, state |-> "Open"]
    /\ buf = <<>>
    /\ reader = [pc |-> "read_until", bytes_read |-> 0]

\* the peer writes a chunk
PeerWrite(chunk) ==
    /\ peer.state = "Open"
    /\ peer.writes < MaxPeerWrites
    /\ peer' = [peer EXCEPT !.pending = @ \o chunk, !.writes = @ + 1]
    /\ UNCHANGED <<doc, dict, raw, parsed, wire, outbox, session_map, route, engine_vars,
                   writer_vars, schedule_vars, settings_vars, buf, reader>>

\* the peer closes the connection: reads return 0 once the bytes are used up
PeerClose ==
    /\ peer.state = "Open"
    /\ peer' = [peer EXCEPT !.state = "Closed"]
    /\ UNCHANGED <<doc, dict, raw, parsed, wire, outbox, session_map, route, engine_vars,
                   writer_vars, schedule_vars, settings_vars, buf, reader>>

\* the connection breaks: reads fail
PeerReset ==
    /\ peer.state = "Open"
    /\ peer' = [peer EXCEPT !.state = "Failed"]
    /\ UNCHANGED <<doc, dict, raw, parsed, wire, outbox, session_map, route, engine_vars,
                   writer_vars, schedule_vars, settings_vars, buf, reader>>

\* read_message: let bytes_read = reader.read_until(SOH as u8, buf).await.unwrap()
ReadUntil ==
    /\ reader.pc = "read_until"
    /\ Bind(read_until(peer), LAMBDA r :
          /\ r.kind # "Pending"
          /\ IF r.kind = "Err"
             THEN /\ reader' = [pc |-> "Panicked", bytes_read |-> 0]
                  /\ UNCHANGED <<peer, buf>>
             ELSE /\ buf' = buf \o SubSeq(peer.pending, 1, r.n)
                  /\ peer' = [peer EXCEPT !.pending = SubSeq(@, r.n + 1, Len(@))]
                  /\ reader' = [pc |-> "check", bytes_read |-> r.n])
    /\ UNCHANGED <<doc, dict, raw, parsed, wire, outbox, session_map, route, engine_vars,
                   writer_vars, schedule_vars, settings_vars>>

\* read_message: break when the bytes read last start with b"10=", read
\* again otherwise
CheckSlice ==
    /\ reader.pc = "check"
    /\ reader' = [reader EXCEPT !.pc =
                     IF StartsWith(SubSeq(buf, Len(buf) - reader.bytes_read + 1, Len(buf)),
                                   CHECKSUM_PREFIX)
                     THEN "send" ELSE "read_until"]
    /\ UNCHANGED <<doc, dict, raw, parsed, wire, outbox, session_map, route, engine_vars,
                   writer_vars, schedule_vars, settings_vars, peer, buf>>

\* start_socket_listener_task: to_app.send(raw_msg).await.unwrap(); buf.clear()
SendToApp ==
    /\ reader.pc = "send"
    /\ Len(socket_to_engine) < SOCKET_TO_ENGINE_CAPACITY
    /\ socket_to_engine' = Append(socket_to_engine, from_utf8_lossy(buf))
    /\ buf' = <<>>
    /\ reader' = [reader EXCEPT !.pc = "read_until"]
    /\ UNCHANGED <<doc, dict, raw, parsed, wire, outbox, session_map, route, inbound,
                   receiver, delivered, writer_vars, schedule_vars, settings_vars, peer>>

NextReader ==
    \/ \E chunk \in PeerChunks : PeerWrite(chunk)
    \/ PeerClose
    \/ PeerReset
    \/ ReadUntil
    \/ CheckSlice
    \/ SendToApp

SpecReader == InitReader /\ [][NextReader]_vars

\* the tokio runtime runs a task that can take a step
SpecReaderFair ==
    SpecReader /\ WF_vars(ReadUntil) /\ WF_vars(CheckSlice) /\ WF_vars(SendToApp)

\* the task has left its loop
ReaderStopped == reader.pc \notin {"read_until", "check", "send"}

\* a forwarded string ends with a field that starts with "10=" and with SOH
WholeMessage(m) ==
    /\ m # <<>> /\ m[Len(m)] = SOH
    /\ StartsWith(WirePieces(m)[Len(WirePieces(m))], CHECKSUM_PREFIX)

ForwardsOnlyWhole == \A i \in 1..Len(socket_to_engine) : WholeMessage(socket_to_engine[i])

\* once the connection is closed or broken the task leaves its loop
ClosedLeadsToStopped == (peer.state # "Open") ~> ReaderStopped

\* C40: once the peer has closed the connection or a read fails, the
\* socket-read task stops reading after finitely many steps, and no string
\* it forwards on socket_to_engine is empty or a partial message.
ReaderStopsOnClose ==
    /\ ClosedLeadsToStopped
    /\ []ForwardsOnlyWhole

\* a broken connection ends the task: the unwrap of the failed read panics
ReaderStopsOnFailure == (peer.state = "Failed") ~> ReaderStopped

\* a closed connection never ends the task
ReaderSpinsOnClose == [][peer.state = "Closed" => ~ReaderStopped']_vars

\* no forwarded string is empty
ForwardsNoEmpty == \A i \in 1..Len(socket_to_engine) : socket_to_engine[i] # <<>>

\* the task reads again although its last read on the closed connection
\* returned 0 bytes
ReaderSpins ==
    /\ peer.state = "Closed" /\ peer.pending = <<>>
    /\ reader.pc = "read_until"
    /\ reader.bytes_read = 0
    /\ socket_to_engine # <<>>

\* a string without final SOH has been forwarded
PartialForwarded ==
    \E i \in 1..Len(socket_to_engine) : ~WholeMessage(socket_to_engine[i])


=============================================================================
